---- MODULE Spec2Model ----
(***************************************************************************)
(* Kensington (src/src/gameBoard.js, class GameBoard): the placement /     *)
(* movement / mill-removal state machine, mill detection and win           *)
(* detection, over the vertex graph that the tiling construction derives.  *)
(*                                                                         *)
(* Lengths are in hundredths of a canvas pixel, so the code's tolerance    *)
(* of 1 pixel is 100 here, a distance of 15 pixels is 1500, and            *)
(* Math.round(x) is (x + 50) \div 100.                                     *)
(*                                                                         *)
(* The canvas is the one setupCanvas computes for a 1024 x 430 window      *)
(* with the 800 x 600 board of init()'s fallback branch: scale =           *)
(* min(741.6/800, 301/600), canvas.height = 301, boardAreaWidth = 401.33.  *)
(***************************************************************************)
EXTENDS Integers, Sequences, FiniteSets

NULL == "null"

RED == "red"
BLUE == "blue"

\* constructor: this.maxTokensPerPlayer = 15
maxTokensPerPlayer == 15

(***************************************************************************)
(* Geometry.  drawKensingtonHexagon computes, for each of the 7 hexagons   *)
(* drawn by drawRhombitrihexagonalTiling (in the order 1..7), the 4        *)
(* corners of its 6 squares (squareCorners, 24 points) with Math.cos and   *)
(* Math.sin; the table holds those points for the canvas above.            *)
(***************************************************************************)
squareCorners ==
  <<
     << <<21572, 9391>>, <<18562, 9391>>, <<18562, 6381>>, <<21572, 6381>>,
        <<17479, 13470>>, <<15974, 10864>>, <<18580, 9359>>, <<20085, 11965>>,
        <<11900, 11965>>, <<13405, 9359>>, <<16011, 10864>>, <<14506, 13470>>,
        <<10413, 6381>>, <<13423, 6381>>, <<13423, 9391>>, <<10413, 9391>>,
        <<14506, 2302>>, <<16011, 4909>>, <<13405, 6414>>, <<11900, 3807>>,
        <<20085, 3807>>, <<18580, 6414>>, <<15974, 4909>>, <<17479, 2302>> >>,
     << <<29720, 9391>>, <<26710, 9391>>, <<26710, 6381>>, <<29720, 6381>>,
        <<25627, 13470>>, <<24122, 10864>>, <<26729, 9359>>, <<28234, 11965>>,
        <<20048, 11965>>, <<21553, 9359>>, <<24160, 10864>>, <<22655, 13470>>,
        <<18562, 6381>>, <<21572, 6381>>, <<21572, 9391>>, <<18562, 9391>>,
        <<22655, 2302>>, <<24160, 4909>>, <<21553, 6414>>, <<20048, 3807>>,
        <<28234, 3807>>, <<26729, 6414>>, <<24122, 4909>>, <<25627, 2302>> >>,
     << <<17497, 16555>>, <<14487, 16555>>, <<14487, 13545>>, <<17497, 13545>>,
        <<13405, 20634>>, <<11900, 18027>>, <<14506, 16522>>, <<16011, 19129>>,
        <<7825, 19129>>, <<9330, 16522>>, <<11937, 18027>>, <<10432, 20634>>,
        <<6339, 13545>>, <<9349, 13545>>, <<9349, 16555>>, <<6339, 16555>>,
        <<10432, 9466>>, <<11937, 12073>>, <<9330, 13578>>, <<7825, 10971>>,
        <<16011, 10971>>, <<14506, 13578>>, <<11900, 12073>>, <<13405, 9466>> >>,
     << <<25646, 16555>>, <<22636, 16555>>, <<22636, 13545>>, <<25646, 13545>>,
        <<21553, 20634>>, <<20048, 18027>>, <<22655, 16522>>, <<24160, 19129>>,
        <<15974, 19129>>, <<17479, 16522>>, <<20085, 18027>>, <<18580, 20634>>,
        <<14487, 13545>>, <<17497, 13545>>, <<17497, 16555>>, <<14487, 16555>>,
        <<18580, 9466>>, <<20085, 12073>>, <<17479, 13578>>, <<15974, 10971>>,
        <<24160, 10971>>, <<22655, 13578>>, <<20048, 12073>>, <<21553, 9466>> >>,
     << <<33794, 16555>>, <<30784, 16555>>, <<30784, 13545>>, <<33794, 13545>>,
        <<29701, 20634>>, <<28196, 18027>>, <<30803, 16522>>, <<32308, 19129>>,
        <<24122, 19129>>, <<25627, 16522>>, <<28234, 18027>>, <<26729, 20634>>,
        <<22636, 13545>>, <<25646, 13545>>, <<25646, 16555>>, <<22636, 16555>>,
        <<26729, 9466>>, <<28234, 12073>>, <<25627, 13578>>, <<24122, 10971>>,
        <<32308, 10971>>, <<30803, 13578>>, <<28196, 12073>>, <<29701, 9466>> >>,
     << <<21572, 23719>>, <<18562, 23719>>, <<18562, 20709>>, <<21572, 20709>>,
        <<17479, 27798>>, <<15974, 25191>>, <<18580, 23686>>, <<20085, 26293>>,
        <<11900, 26293>>, <<13405, 23686>>, <<16011, 25191>>, <<14506, 27798>>,
        <<10413, 20709>>, <<13423, 20709>>, <<13423, 23719>>, <<10413, 23719>>,
        <<14506, 16630>>, <<16011, 19236>>, <<13405, 20741>>, <<11900, 18135>>,
        <<20085, 18135>>, <<18580, 20741>>, <<15974, 19236>>, <<17479, 16630>> >>,
     << <<29720, 23719>>, <<26710, 23719>>, <<26710, 20709>>, <<29720, 20709>>,
        <<25627, 27798>>, <<24122, 25191>>, <<26729, 23686>>, <<28234, 26293>>,
        <<20048, 26293>>, <<21553, 23686>>, <<24160, 25191>>, <<22655, 27798>>,
        <<18562, 20709>>, <<21572, 20709>>, <<21572, 23719>>, <<18562, 23719>>,
        <<22655, 16630>>, <<24160, 19236>>, <<21553, 20741>>, <<20048, 18135>>,
        <<28234, 18135>>, <<26729, 20741>>, <<24122, 19236>>, <<25627, 16630>> >>
  >>

Abs(n) == IF n < 0 THEN 0 - n ELSE n

Point(p) == [x |-> p[1], y |-> p[2]]

\* processVertices(corners), as a function of the vertex list it extends:
\* a corner within 5 pixels (in x and in y) of a vertex already in the list
\* (existingVertex) is dropped, any other corner is appended.
processCorners[vs \in Seq([x : Int, y : Int]), corners \in Seq(Int \X Int)] ==
  IF corners = << >> THEN vs
  ELSE processCorners[
         IF \E i \in 1..Len(vs) :
               /\ Abs(vs[i].x - Head(corners)[1]) < 500
               /\ Abs(vs[i].y - Head(corners)[2]) < 500
         THEN vs
         ELSE Append(vs, Point(Head(corners))),
         Tail(corners)]

\* processVertices that pushes every corner
pushEveryCorner(vs, corners) ==
  vs \o [ i \in 1..Len(corners) |-> Point(corners[i]) ]

processVertices(vs, corners) == processCorners[vs, corners]

\* render(): this.vertices = [], then drawRhombitrihexagonalTiling draws the
\* hexagons 1..7 (drawKensingtonHexagon), each ending in
\* processVertices(squareCorners).
verticesAfterHexagon1 == processVertices(<< >>, squareCorners[1])
verticesAfterHexagon2 == processVertices(verticesAfterHexagon1, squareCorners[2])
verticesAfterHexagon3 == processVertices(verticesAfterHexagon2, squareCorners[3])
verticesAfterHexagon4 == processVertices(verticesAfterHexagon3, squareCorners[4])
verticesAfterHexagon5 == processVertices(verticesAfterHexagon4, squareCorners[5])
verticesAfterHexagon6 == processVertices(verticesAfterHexagon5, squareCorners[6])
verticesAfterHexagon7 == processVertices(verticesAfterHexagon6, squareCorners[7])

renderVertices == verticesAfterHexagon7

\* setupCanvas and drawKensingtonHexagon for a 1024 x 215 window: scale,
\* boardAreaWidth (200.67) and canvas.height (150.5) are half of what they
\* are for the 1024 x 430 window, and so is every corner.
resizedSquareCorners ==
  [ h \in 1..7 |->
      [ k \in 1..Len(squareCorners[h]) |->
          << squareCorners[h][k][1] \div 2, squareCorners[h][k][2] \div 2 >> ] ]

RECURSIVE resizedVerticesAfterHexagon(_)
resizedVerticesAfterHexagon(h) ==
  IF h = 0 THEN << >>
  ELSE processVertices(resizedVerticesAfterHexagon(h - 1), resizedSquareCorners[h])

\* this.vertices after render() on the canvas of the 1024 x 215 window
resizedVertices == resizedVerticesAfterHexagon(7)

\* this.vertices after render(), by window.innerHeight (innerWidth is 1024)
verticesForWindow(innerHeight) ==
  IF innerHeight = 430 THEN renderVertices ELSE resizedVertices

\* handleResize(): setupCanvas() and render() for the window's new size
handleResize(s, innerHeight) ==
  [s EXCEPT !.vertices = verticesForWindow(innerHeight)]

\* hasActualDrawnLine, from dx = |x1 - x2| and dy = |y1 - y2| on.  dx, dy >= 0,
\* so Math.atan2(dy, dx) lies in [0, 90] degrees and the two obtuse ranges
\* never match; an angle range (a, b) is tan(a) < dy/dx < tan(b), with the
\* tangents to 5 places: tan 25 = 0.46631, tan 35 = 0.70021,
\* tan 55 = 1.42815, tan 65 = 2.14451.  dx = 0 gives the angle 90 and the
\* ratio Infinity (dy > 0 inside the distance range), which match no range.
drawnLine(dx, dy) ==
  /\ dx < 4000 /\ dy < 4000
  /\ dx * dx + dy * dy > 1500 * 1500
  /\ dx * dx + dy * dy < 4000 * 4000
  /\ \/ dy < 300 /\ dx > 1500 /\ dx < 4000
     \/ dx < 300 /\ dy > 1500 /\ dy < 4000
     \/ /\ Abs(dx - dy) < 300
        /\ dx > 1500 /\ dx < 3500 /\ dy > 1500 /\ dy < 3500
     \/ /\ dx > 0
        /\ \/ 46631 * dx < 100000 * dy /\ 100000 * dy < 70021 * dx
           \/ 142815 * dx < 100000 * dy /\ 100000 * dy < 214451 * dx
     \/ /\ dx > 0
        /\ \/ 40 * dx < 100 * dy /\ 100 * dy < 80 * dx
           \/ 125 * dx < 100 * dy /\ 100 * dy < 250 * dx
     \/ /\ dx > 0
        /\ \/ 140 * dx < 100 * dy /\ 100 * dy < 220 * dx
           \/ 45 * dx < 100 * dy /\ 100 * dy < 80 * dx

\* hasActualDrawnLine without Math.abs on the difference of the x coordinates
hasLineWithSignedDx(vertex1, vertex2) ==
  drawnLine(vertex1.x - vertex2.x, Abs(vertex1.y - vertex2.y))

\* hasActualDrawnLine(vertex1, vertex2)
hasActualDrawnLine(vertex1, vertex2) ==
  drawnLine(Abs(vertex1.x - vertex2.x), Abs(vertex1.y - vertex2.y))

\* isAdjacent(vertex1, vertex2)
isAdjacent(vertex1, vertex2) == hasActualDrawnLine(vertex1, vertex2)

\* this.tilingUnit.scale * Math.min(this.boardAreaWidth, this.canvas.height)
\* = 0.2 * 301 pixels
unitSize == 6020

\* getHexagonCenter(hexagonNumber): the seven centres for the canvas above
\* (hexagonSpacing = 2 * (hexRadius + squareSide / sqrt(2) / 2),
\* verticalSpacing = 1.2 * unitSize); null for any other number.
getHexagonCenter(hexagonNumber) ==
  CASE hexagonNumber = 1 -> [x |-> 15992, y |-> 7886]
    [] hexagonNumber = 2 -> [x |-> 24141, y |-> 7886]
    [] hexagonNumber = 3 -> [x |-> 11918, y |-> 15050]
    [] hexagonNumber = 4 -> [x |-> 20067, y |-> 15050]
    [] hexagonNumber = 5 -> [x |-> 28215, y |-> 15050]
    [] hexagonNumber = 6 -> [x |-> 15992, y |-> 22214]
    [] hexagonNumber = 7 -> [x |-> 24141, y |-> 22214]
    [] OTHER -> NULL

\* distance > unitSize * 0.4 && distance < searchRadius (unitSize * 0.8)
inSearchBand(dx, dy) ==
  /\ dx < (unitSize * 8) \div 10 /\ dy < (unitSize * 8) \div 10
  /\ dx * dx + dy * dy > ((unitSize * 4) \div 10) * ((unitSize * 4) \div 10)
  /\ dx * dx + dy * dy < ((unitSize * 8) \div 10) * ((unitSize * 8) \div 10)

\* getHexagonVertices(hexCenter): the vertices (by their index in
\* this.vertices) whose distance from the centre is in that band.
getHexagonVertices(vs, hexCenter) ==
  { i \in 1..Len(vs) :
      inSearchBand(Abs(vs[i].x - hexCenter.x), Abs(vs[i].y - hexCenter.y)) }

(***************************************************************************)
(* Game state.  A handler is a function from the object's fields (a record *)
(* s) to the fields it leaves behind; the steps of a handler that use the  *)
(* result of an earlier step are operators of their own, taking that       *)
(* result as a parameter.  selectedVertex is << >> for null and <<vertex>> *)
(* otherwise; tokens is the array of {x, y, color}; a message is recorded  *)
(* by the template that produced it and the values interpolated into it.   *)
(***************************************************************************)
Message(kind, player, a, b, c) ==
  [kind |-> kind, player |-> player, a |-> a, b |-> b, c |-> c]

\* Array.find / Array.findIndex: the first index of those that match, 0 when
\* none does.
firstIndex(found) ==
  IF found = {} THEN 0 ELSE CHOOSE i \in found : \A j \in found : i <= j

\* getTokenAt(x, y): the first token within 1 pixel in x and in y, by its
\* index in tokens; 0 when there is none.
getTokenAt(tokens, x, y) ==
  firstIndex({ i \in 1..Len(tokens) :
                 Abs(tokens[i].x - x) < 100 /\ Abs(tokens[i].y - y) < 100 })

\* token && token.color === color, for the token at a vertex
hasTokenOfColor(tokens, vertex, color) ==
  \E i \in { getTokenAt(tokens, vertex.x, vertex.y) } :
     i # 0 /\ tokens[i].color = color

otherPlayer(player) == IF player = RED THEN BLUE ELSE RED

\* switchPlayer()
switchPlayer(s) ==
  IF s.gameState = "placement"
  THEN [s EXCEPT !.currentPlayer = otherPlayer(@),
                 !.gameMessage =
                    Message("turnToPlace", otherPlayer(s.currentPlayer),
                            maxTokensPerPlayer -
                              (IF otherPlayer(s.currentPlayer) = RED
                               THEN s.redTokensPlaced ELSE s.blueTokensPlaced),
                            0, 0)]
  ELSE [s EXCEPT !.currentPlayer = otherPlayer(@),
                 !.gameMessage =
                    Message("turnToMove", otherPlayer(s.currentPlayer), 0, 0, 0)]

\* allOccupiedBy satisfied with any five of the vertices
fiveOccupiedBy(s, hexagonVertices, playerColor) ==
  /\ Cardinality(hexagonVertices) >= 6
  /\ Cardinality({ i \in hexagonVertices :
                     hasTokenOfColor(s.tokens, s.vertices[i], playerColor) }) >= 5

\* isHexagonSurrounded, lines 1822-1836: totalVertices >= 6 and
\* surroundedCount === totalVertices
allOccupiedBy(s, hexagonVertices, playerColor) ==
  /\ Cardinality(hexagonVertices) >= 6
  /\ Cardinality({ i \in hexagonVertices :
                     hasTokenOfColor(s.tokens, s.vertices[i], playerColor) })
       = Cardinality(hexagonVertices)

\* isHexagonSurrounded(hexagonNumber, playerColor)
isHexagonSurrounded(s, hexagonNumber, playerColor) ==
  IF hexagonNumber \notin 1..7 THEN FALSE
  ELSE allOccupiedBy(s,
         getHexagonVertices(s.vertices, getHexagonCenter(hexagonNumber)),
         playerColor)

\* blueWinHexagons without the hexagons shared with red
blueWinHexagonsOwnOnly == << 6, 7 >>

\* blueWinHexagons with red's own hexagons as well
blueWinHexagonsAllSeven == << 1, 2, 3, 4, 5, 6, 7 >>

redWinHexagons == << 1, 2, 3, 4, 5 >>
blueWinHexagons == << 3, 4, 5, 6, 7 >>

\* The first hexagon of the list that the colour surrounds, 0 when none: the
\* for loops of checkForWin.
firstSurrounded(s, hexagons, playerColor) ==
  IF \A k \in 1..Len(hexagons) : ~ isHexagonSurrounded(s, hexagons[k], playerColor)
  THEN 0
  ELSE hexagons[firstIndex({ k \in 1..Len(hexagons) :
                               isHexagonSurrounded(s, hexagons[k], playerColor) })]

\* declareWinner crediting every hexagon to red
declareRedWinner(s, redHex, blueHex) ==
  IF redHex # 0
  THEN [s EXCEPT !.gameWinner = RED,
                 !.gameMessage = Message("wins", RED, redHex, 0, 0)]
  ELSE IF blueHex # 0
  THEN [s EXCEPT !.gameWinner = RED,
                 !.gameMessage = Message("wins", RED, blueHex, 0, 0)]
  ELSE s

\* checkForWin, given the hexagon found for red and the one found for blue
declareWinner(s, redHex, blueHex) ==
  IF redHex # 0
  THEN [s EXCEPT !.gameWinner = RED,
                 !.gameMessage = Message("wins", RED, redHex, 0, 0)]
  ELSE IF blueHex # 0
  THEN [s EXCEPT !.gameWinner = BLUE,
                 !.gameMessage = Message("wins", BLUE, blueHex, 0, 0)]
  ELSE s

\* checkForWin(): red's hexagons first, then blue's; the first hit sets
\* gameWinner and the message and returns.
checkForWin(s) ==
  declareWinner(s, firstSurrounded(s, redWinHexagons, RED),
                   firstSurrounded(s, blueWinHexagons, BLUE))

\* render(): rebuilds this.vertices (isImageLoaded is true once init() ran).
render(s) == [s EXCEPT !.vertices = renderVertices]

\* handlePlacement, lines 1206-1217: push the token, count it
placeToken(s, vertex) ==
  [s EXCEPT !.tokens = Append(@, [x |-> vertex.x, y |-> vertex.y,
                                  color |-> s.currentPlayer]),
            !.redTokensPlaced = IF s.currentPlayer = RED THEN @ + 1 ELSE @,
            !.blueTokensPlaced = IF s.currentPlayer = RED THEN @ ELSE @ + 1]

\* endPlacement with the phase change as soon as red has placed its 15
endPlacementOnRedQuota(s) ==
  IF s.redTokensPlaced = maxTokensPerPlayer
  THEN [s EXCEPT !.gameState = "movement",
                 !.currentPlayer = RED,
                 !.gameMessage = Message("movementStarted", RED, 0, 0, 0)]
  ELSE IF s.gameWinner = NULL THEN switchPlayer(s)
  ELSE s

\* endPlacement that leaves the turn with the player who placed
endPlacementKeepingTurn(s) ==
  IF /\ s.redTokensPlaced = maxTokensPerPlayer
     /\ s.blueTokensPlaced = maxTokensPerPlayer
  THEN [s EXCEPT !.gameState = "movement",
                 !.currentPlayer = RED,
                 !.gameMessage = Message("movementStarted", RED, 0, 0, 0)]
  ELSE s

\* endPlacement that gives blue the first move of the movement phase
endPlacementBlueFirst(s) ==
  IF /\ s.redTokensPlaced = maxTokensPerPlayer
     /\ s.blueTokensPlaced = maxTokensPerPlayer
  THEN [s EXCEPT !.gameState = "movement",
                 !.currentPlayer = BLUE,
                 !.gameMessage = Message("movementStarted", BLUE, 0, 0, 0)]
  ELSE IF s.gameWinner = NULL THEN switchPlayer(s)
  ELSE s

\* handlePlacement, lines 1222-1230: after checkForWin
endPlacement(s) ==
  IF /\ s.redTokensPlaced = maxTokensPerPlayer
     /\ s.blueTokensPlaced = maxTokensPerPlayer
  THEN [s EXCEPT !.gameState = "movement",
                 !.currentPlayer = RED,
                 !.gameMessage = Message("movementStarted", RED, 0, 0, 0)]
  ELSE IF s.gameWinner = NULL THEN switchPlayer(s)
  ELSE s

\* handlePlacement without the test for an occupied vertex
handlePlacementAnywhere(s, vertex) ==
  render(endPlacement(checkForWin(placeToken(s, vertex))))

\* handlePlacement(vertex)
handlePlacement(s, vertex) ==
  IF getTokenAt(s.tokens, vertex.x, vertex.y) # 0 THEN s
  ELSE render(endPlacement(checkForWin(placeToken(s, vertex))))

\* The fields after the constructor and init() (initializeGame, render).
initialState ==
  [ gameState |-> "placement",
    currentPlayer |-> RED,
    redTokensPlaced |-> 0,
    blueTokensPlaced |-> 0,
    tokens |-> << >>,
    selectedVertex |-> << >>,
    gameWinner |-> NULL,
    gameMessage |-> Message("toPlace", RED, maxTokensPerPlayer, 0, 0),
    millRemovalState |-> NULL,
    highlightedMillTokens |-> {},
    millShapes |-> {},
    previousMills |-> {},
    remainingOpponentMoves |-> 0,
    movedOpponentTokens |-> << >>,
    vertices |-> renderVertices ]

\* resetGame that keeps the mill history
resetGameKeepingMills(s) ==
  render([s EXCEPT !.gameState = "placement",
                   !.currentPlayer = RED,
                   !.redTokensPlaced = 0,
                   !.blueTokensPlaced = 0,
                   !.tokens = << >>,
                   !.selectedVertex = << >>,
                   !.gameWinner = NULL,
                   !.gameMessage = Message("toPlace", RED, maxTokensPerPlayer, 0, 0),
                   !.millRemovalState = NULL,
                   !.highlightedMillTokens = {},
                   !.millShapes = {},
                   !.remainingOpponentMoves = 0,
                   !.movedOpponentTokens = << >>])

\* resetGame()
resetGame(s) ==
  render([s EXCEPT !.gameState = "placement",
                   !.currentPlayer = RED,
                   !.redTokensPlaced = 0,
                   !.blueTokensPlaced = 0,
                   !.tokens = << >>,
                   !.selectedVertex = << >>,
                   !.gameWinner = NULL,
                   !.gameMessage = Message("toPlace", RED, maxTokensPerPlayer, 0, 0),
                   !.millRemovalState = NULL,
                   !.highlightedMillTokens = {},
                   !.millShapes = {},
                   !.previousMills = {},
                   !.remainingOpponentMoves = 0,
                   !.movedOpponentTokens = << >>])

(***************************************************************************)
(* Mills.  A mill is the tuple of its vertices, in the order of            *)
(* this.vertices.                                                          *)
(***************************************************************************)
\* Math.round of a coordinate, in pixels
MathRound(n) == (n + 50) \div 100

\* `${Math.round(vertex.x)},${Math.round(vertex.y)}`
roundedKey(vertex) == << MathRound(vertex.x), MathRound(vertex.y) >>

\* createMillId(mill, type): the type and the sorted "x,y" strings of the
\* rounded vertices joined by "|", i.e. the type and the multiset of the
\* rounded vertices.
createMillId(mill, type) ==
  [ type |-> type,
    sortedVertices |->
      [ k \in { roundedKey(mill[i]) : i \in 1..Len(mill) } |->
          Cardinality({ i \in 1..Len(mill) : roundedKey(mill[i]) = k }) ] ]

\* wasMillPreviouslyFormed that remembers no mill
wasMillNeverFormed(previousMills, mill, type) == FALSE

\* wasMillPreviouslyFormed(mill, type)
wasMillPreviouslyFormed(previousMills, mill, type) ==
  createMillId(mill, type) \in previousMills

\* updatePreviouslyFormedMills(triangleMills, squareMills)
updatePreviouslyFormedMills(previousMills, triangleMills, squareMills) ==
  previousMills \cup { createMillId(mill, "triangle") : mill \in triangleMills }
                \cup { createMillId(mill, "square") : mill \in squareMills }

\* isTriangleMill that does not look at the edge between v2 and v3
isTriangleMillTwoEdges(s, v1, v2, v3) ==
  \E firstToken \in { getTokenAt(s.tokens, v1.x, v1.y) } :
     /\ firstToken # 0
     /\ \A vertex \in { v1, v2, v3 } :
           hasTokenOfColor(s.tokens, vertex, s.tokens[firstToken].color)
     /\ hasActualDrawnLine(v1, v2)
     /\ hasActualDrawnLine(v1, v3)

\* isTriangleMill(v1, v2, v3)
isTriangleMill(s, v1, v2, v3) ==
  \E firstToken \in { getTokenAt(s.tokens, v1.x, v1.y) } :
     /\ firstToken # 0
     /\ \A vertex \in { v1, v2, v3 } :
           hasTokenOfColor(s.tokens, vertex, s.tokens[firstToken].color)
     /\ hasActualDrawnLine(v1, v2)
     /\ hasActualDrawnLine(v1, v3)
     /\ hasActualDrawnLine(v2, v3)

\* squareOrders with the order of the arguments only
squareOrdersAsPassed == << << 0, 1, 2, 3 >> >>

\* isSquareMill: squareOrders
squareOrders ==
  << << 0, 1, 2, 3 >>, << 0, 1, 3, 2 >>, << 0, 2, 1, 3 >>,
     << 0, 2, 3, 1 >>, << 0, 3, 1, 2 >>, << 0, 3, 2, 1 >> >>

\* isSquareMill, lines 1662-1691: some order of the four vertices is a cycle
\* of drawn lines
formsCycle(vs) ==
  \E o \in 1..Len(squareOrders) :
     \A i \in 0..3 :
        hasActualDrawnLine(vs[squareOrders[o][i + 1] + 1],
                           vs[squareOrders[o][((i + 1) % 4) + 1] + 1])

\* isSquareMill(v1, v2, v3, v4)
isSquareMill(s, v1, v2, v3, v4) ==
  \E firstToken \in { getTokenAt(s.tokens, v1.x, v1.y) } :
     /\ firstToken # 0
     /\ \A vertex \in { v1, v2, v3, v4 } :
           hasTokenOfColor(s.tokens, vertex, s.tokens[firstToken].color)
     /\ formsCycle(<< v1, v2, v3, v4 >>)

\* this.vertices.filter(vertex => token && token.color === player), as the
\* set of the indices kept.
playerVertices(s, player) ==
  { i \in 1..Len(s.vertices) : hasTokenOfColor(s.tokens, s.vertices[i], player) }

\* includesMovedToken that accepts every combination
includesAnyToken(vs, idx, x, y) == TRUE

\* [v1, ...].some(v => |v.x - movedToken.x| < 1 && |v.y - movedToken.y| < 1)
includesMovedToken(vs, idx, x, y) ==
  \E i \in idx : Abs(vs[i].x - x) < 100 /\ Abs(vs[i].y - y) < 100

\* findTriangleMills: the loops over i < j < k
triangleCombinations(pv) ==
  UNION { UNION { { << i, j, k >> : k \in { n \in pv : n > j } }
                  : j \in { n \in pv : n > i } }
          : i \in pv }

\* findTriangleMills(player, x, y)
findTriangleMills(s, player, x, y) ==
  { << s.vertices[c[1]], s.vertices[c[2]], s.vertices[c[3]] >> :
      c \in { t \in triangleCombinations(playerVertices(s, player)) :
                /\ includesMovedToken(s.vertices, { t[1], t[2], t[3] }, x, y)
                /\ isTriangleMill(s, s.vertices[t[1]], s.vertices[t[2]],
                                  s.vertices[t[3]]) } }

\* findSquareMills: the loops over i < j < k < l
squareCombinations(pv) ==
  UNION { UNION { UNION { { << i, j, k, l >> : l \in { n \in pv : n > k } }
                          : k \in { n \in pv : n > j } }
                  : j \in { n \in pv : n > i } }
          : i \in pv }

\* findSquareMills(player, x, y)
findSquareMills(s, player, x, y) ==
  { << s.vertices[c[1]], s.vertices[c[2]], s.vertices[c[3]], s.vertices[c[4]] >> :
      c \in { t \in squareCombinations(playerVertices(s, player)) :
                /\ includesMovedToken(s.vertices, { t[1], t[2], t[3], t[4] }, x, y)
                /\ isSquareMill(s, s.vertices[t[1]], s.vertices[t[2]],
                                s.vertices[t[3]], s.vertices[t[4]]) } }

\* Math.min(allowedMoves, 2)
MathMin2(allowedMoves) == IF allowedMoves < 2 THEN allowedMoves ELSE 2

\* allowedMovesFor without the cap of 2
allowedMovesUncapped(totalTriangleMills, totalSquareMills) ==
  totalTriangleMills * 1 + totalSquareMills * 2

\* checkForMills, lines 1432-1437: 1 move per new triangle mill, 2 per new
\* square mill, at most 2.
allowedMovesFor(totalTriangleMills, totalSquareMills) ==
  MathMin2(totalTriangleMills * 1 + totalSquareMills * 2)

\* this.millShapes after the two loops of checkForMills
millShapesOf(newTriangleMills, newSquareMills) ==
  { [vertices |-> m, type |-> "triangle"] : m \in newTriangleMills }
  \cup { [vertices |-> m, type |-> "square"] : m \in newSquareMills }

inMill(v, m) == \E i \in 1..Len(m.vertices) : m.vertices[i] = v

\* vertexMillTypes: a vertex of one new mill has that mill's type, a vertex of
\* several has "both".
highlightsOf(shapes) ==
  { [ vertex |-> v,
      type |-> IF Cardinality({ m \in shapes : inMill(v, m) }) > 1 THEN "both"
               ELSE (CHOOSE m \in shapes : inMill(v, m)).type ] :
      v \in UNION { { m.vertices[i] : i \in 1..Len(m.vertices) } : m \in shapes } }

\* checkForMills, lines 1390-1453: totalMills > 0
enterMillRemoval(s, player, shapes, totalTriangleMills, totalSquareMills) ==
  [s EXCEPT !.millShapes = shapes,
            !.highlightedMillTokens = highlightsOf(shapes),
            !.millRemovalState = "removing",
            !.remainingOpponentMoves =
               allowedMovesFor(totalTriangleMills, totalSquareMills),
            !.movedOpponentTokens = << >>,
            !.gameMessage =
               Message("formedMills", player, totalTriangleMills, totalSquareMills,
                       allowedMovesFor(totalTriangleMills, totalSquareMills))]

\* checkForMills, lines 1386-1455: cleared is the state with the highlights
\* cleared and previousMills updated.
recordMills(cleared, player, newTriangleMills, newSquareMills) ==
  IF Cardinality(newTriangleMills) + Cardinality(newSquareMills) > 0
  THEN [ state |-> enterMillRemoval(cleared, player,
                                    millShapesOf(newTriangleMills, newSquareMills),
                                    Cardinality(newTriangleMills),
                                    Cardinality(newSquareMills)),
         millsFormed |-> TRUE ]
  ELSE [ state |-> cleared, millsFormed |-> FALSE ]

\* filterNewMills that takes every mill of blue for a new one
filterNewMillsAlwaysNewForBlue(s, player, triangleMills, squareMills) ==
  recordMills(
    [s EXCEPT !.highlightedMillTokens = {},
              !.millShapes = {},
              !.previousMills =
                 updatePreviouslyFormedMills(@, triangleMills, squareMills)],
    player,
    { mill \in triangleMills :
        player = BLUE \/ ~ wasMillPreviouslyFormed(s.previousMills, mill, "triangle") },
    { mill \in squareMills :
        player = BLUE \/ ~ wasMillPreviouslyFormed(s.previousMills, mill, "square") })

\* checkForMills, lines 1371-1384: the new mills are those not in
\* previousMills as it was before this call's update.
filterNewMills(s, player, triangleMills, squareMills) ==
  recordMills(
    [s EXCEPT !.highlightedMillTokens = {},
              !.millShapes = {},
              !.previousMills =
                 updatePreviouslyFormedMills(@, triangleMills, squareMills)],
    player,
    { mill \in triangleMills :
        ~ wasMillPreviouslyFormed(s.previousMills, mill, "triangle") },
    { mill \in squareMills :
        ~ wasMillPreviouslyFormed(s.previousMills, mill, "square") })

\* checkForMills(x, y): the fields it leaves and the boolean it returns.
checkForMills(s, x, y) ==
  IF getTokenAt(s.tokens, x, y) = 0 THEN [state |-> s, millsFormed |-> FALSE]
  ELSE filterNewMills(s, s.tokens[getTokenAt(s.tokens, x, y)].color,
                      findTriangleMills(s, s.tokens[getTokenAt(s.tokens, x, y)].color, x, y),
                      findSquareMills(s, s.tokens[getTokenAt(s.tokens, x, y)].color, x, y))

(***************************************************************************)
(* Movement.                                                               *)
(***************************************************************************)
\* this.tokens.findIndex(t => |t.x - selectedVertex.x| < 1 && ...): the
\* index in tokens (from 1), 0 for JavaScript's -1.
selectedTokenIndex(s) ==
  getTokenAt(s.tokens, s.selectedVertex[1].x, s.selectedVertex[1].y)

\* this.tokens[tokenIndex].x = vertex.x; this.tokens[tokenIndex].y = vertex.y
moveToken(tokens, tokenIndex, vertex) ==
  [tokens EXCEPT ![tokenIndex].x = vertex.x, ![tokenIndex].y = vertex.y]

\* selectOpponentToken that selects a token of either colour
selectTokenOfAnyColour(s, vertex, token) ==
  IF token # 0
  THEN render([s EXCEPT !.selectedVertex = << vertex >>,
                        !.gameMessage =
                           Message("selectedOpponent", otherPlayer(s.currentPlayer),
                                   s.remainingOpponentMoves, 0, 0)])
  ELSE s

\* handleMovement, lines 1241-1246 and 1251-1256: select the clicked token if
\* it is a token of the opponent
selectOpponentToken(s, vertex, token) ==
  IF token # 0 /\ s.tokens[token].color = otherPlayer(s.currentPlayer)
  THEN render([s EXCEPT !.selectedVertex = << vertex >>,
                        !.gameMessage =
                           Message("selectedOpponent", otherPlayer(s.currentPlayer),
                                   s.remainingOpponentMoves, 0, 0)])
  ELSE s

\* endMillRemoval that leaves the turn with the player who formed the mill
endMillRemovalKeepingTurn(s) == s

\* handleMovement, lines 1286-1288
endMillRemoval(s) ==
  IF s.gameWinner = NULL THEN switchPlayer(s) ELSE s

\* afterOpponentMove that clears previousMills when the removal phase ends
afterOpponentMoveClearingMills(s) ==
  IF s.remainingOpponentMoves > 0 /\ s.gameWinner = NULL
  THEN [s EXCEPT !.gameMessage =
                    Message("opponentMoved", otherPlayer(s.currentPlayer),
                            s.remainingOpponentMoves, 0, 0)]
  ELSE IF s.gameWinner = NULL
  THEN endMillRemoval(checkForWin([s EXCEPT !.millRemovalState = NULL,
                                            !.highlightedMillTokens = {},
                                            !.millShapes = {},
                                            !.previousMills = {},
                                            !.movedOpponentTokens = << >>]))
  ELSE s

\* afterOpponentMove that ends the mill removal after every relocation
afterOpponentMoveEndingPhase(s) ==
  IF s.gameWinner = NULL
  THEN endMillRemoval(checkForWin([s EXCEPT !.millRemovalState = NULL,
                                            !.highlightedMillTokens = {},
                                            !.millShapes = {},
                                            !.movedOpponentTokens = << >>]))
  ELSE s

\* handleMovement, lines 1275-1289: after the relocation and its checkForWin
afterOpponentMove(s) ==
  IF s.remainingOpponentMoves > 0 /\ s.gameWinner = NULL
  THEN [s EXCEPT !.gameMessage =
                    Message("opponentMoved", otherPlayer(s.currentPlayer),
                            s.remainingOpponentMoves, 0, 0)]
  ELSE IF s.gameWinner = NULL
  THEN endMillRemoval(checkForWin([s EXCEPT !.millRemovalState = NULL,
                                            !.highlightedMillTokens = {},
                                            !.millShapes = {},
                                            !.movedOpponentTokens = << >>]))
  ELSE s

\* moveOpponentToken taking the selected token off the board
removeOpponentToken(s, vertex, tokenIndex) ==
  IF tokenIndex = 0 THEN s
  ELSE render(afterOpponentMove(checkForWin(
         [s EXCEPT !.tokens = [ i \in 1..(Len(s.tokens) - 1) |->
                                  IF i < tokenIndex THEN s.tokens[i]
                                  ELSE s.tokens[i + 1] ],
                   !.movedOpponentTokens = Append(@, tokenIndex),
                   !.remainingOpponentMoves = @ - 1,
                   !.selectedVertex = << >>])))

\* moveOpponentToken counting each relocation twice
moveOpponentTokenCountingTwice(s, vertex, tokenIndex) ==
  IF tokenIndex = 0 THEN s
  ELSE render(afterOpponentMove(checkForWin(
         [s EXCEPT !.tokens = moveToken(@, tokenIndex, vertex),
                   !.movedOpponentTokens = Append(@, tokenIndex),
                   !.remainingOpponentMoves = @ - 2,
                   !.selectedVertex = << >>])))

\* moveOpponentToken without the checkForWin that follows the relocation
moveOpponentTokenUnchecked(s, vertex, tokenIndex) ==
  IF tokenIndex = 0 THEN s
  ELSE render(afterOpponentMove(
         [s EXCEPT !.tokens = moveToken(@, tokenIndex, vertex),
                   !.movedOpponentTokens = Append(@, tokenIndex),
                   !.remainingOpponentMoves = @ - 1,
                   !.selectedVertex = << >>]))

\* moveOpponentToken with a mill detection for the relocated token
moveOpponentTokenDetectingMills(s, vertex, tokenIndex) ==
  IF tokenIndex = 0 THEN s
  ELSE render(afterOpponentMove(checkForWin(
         [ checkForMills([s EXCEPT !.tokens = moveToken(@, tokenIndex, vertex)],
                         vertex.x, vertex.y).state
             EXCEPT !.movedOpponentTokens = Append(@, tokenIndex),
                    !.remainingOpponentMoves = @ - 1,
                    !.selectedVertex = << >>])))

\* handleMovement, lines 1259-1291: move the selected opponent token
moveOpponentToken(s, vertex, tokenIndex) ==
  IF tokenIndex = 0 THEN s
  ELSE render(afterOpponentMove(checkForWin(
         [s EXCEPT !.tokens = moveToken(@, tokenIndex, vertex),
                   !.movedOpponentTokens = Append(@, tokenIndex),
                   !.remainingOpponentMoves = @ - 1,
                   !.selectedVertex = << >>])))

\* handleMillRemoval that relocates to adjacent vertices only
handleMillRemovalToAdjacentOnly(s, vertex) ==
  IF s.selectedVertex = << >> \/ getTokenAt(s.tokens, vertex.x, vertex.y) # 0
  THEN selectOpponentToken(s, vertex, getTokenAt(s.tokens, vertex.x, vertex.y))
  ELSE IF isAdjacent(s.selectedVertex[1], vertex)
  THEN moveOpponentToken(s, vertex, selectedTokenIndex(s))
  ELSE s

\* handleMillRemoval that relocates onto every vertex holding no token of
\* the opponent, the current player's tokens included
handleMillRemovalOntoOwnTokens(s, vertex) ==
  IF s.selectedVertex = << >>
     \/ hasTokenOfColor(s.tokens, vertex, otherPlayer(s.currentPlayer))
  THEN selectOpponentToken(s, vertex, getTokenAt(s.tokens, vertex.x, vertex.y))
  ELSE moveOpponentToken(s, vertex, selectedTokenIndex(s))

\* handleMovement, lines 1238-1295: the mill removal phase
handleMillRemoval(s, vertex) ==
  IF s.selectedVertex = << >> \/ getTokenAt(s.tokens, vertex.x, vertex.y) # 0
  THEN selectOpponentToken(s, vertex, getTokenAt(s.tokens, vertex.x, vertex.y))
  ELSE moveOpponentToken(s, vertex, selectedTokenIndex(s))

\* selectOwnToken that selects a token of either colour
selectTokenOfEitherPlayer(s, vertex, token) ==
  IF token # 0
  THEN render([s EXCEPT !.selectedVertex = << vertex >>,
                        !.gameMessage = Message("selected", s.currentPlayer, 0, 0, 0)])
  ELSE s

\* handleMovement, lines 1300-1304 and 1309-1313: select the clicked token if
\* it is a token of the current player
selectOwnToken(s, vertex, token) ==
  IF token # 0 /\ s.tokens[token].color = s.currentPlayer
  THEN render([s EXCEPT !.selectedVertex = << vertex >>,
                        !.gameMessage = Message("selected", s.currentPlayer, 0, 0, 0)])
  ELSE s

\* endMove that never switches players
endMoveKeepingTurn(s, millsFormed) == [s EXCEPT !.selectedVertex = << >>]

\* endMove that switches players whether or not mills were formed
endMoveAlwaysSwitching(s, millsFormed) ==
  IF s.gameWinner = NULL
  THEN switchPlayer([s EXCEPT !.selectedVertex = << >>])
  ELSE [s EXCEPT !.selectedVertex = << >>]

\* endMove that leaves selectedVertex as it was
endMoveKeepingSelection(s, millsFormed) ==
  IF ~ millsFormed /\ s.gameWinner = NULL THEN switchPlayer(s) ELSE s

\* handleMovement, lines 1330-1335: s is the state after checkForWin
endMove(s, millsFormed) ==
  IF ~ millsFormed /\ s.gameWinner = NULL
  THEN switchPlayer([s EXCEPT !.selectedVertex = << >>])
  ELSE [s EXCEPT !.selectedVertex = << >>]

\* handleMovement, lines 1327-1336: mills is what checkForMills left
afterMove(mills) ==
  render(endMove(checkForWin(mills.state), mills.millsFormed))

\* handleMovement, lines 1318-1337: move the selected token
moveOwnToken(s, vertex, tokenIndex) ==
  IF tokenIndex = 0 THEN s
  ELSE afterMove(checkForMills([s EXCEPT !.tokens = moveToken(@, tokenIndex, vertex)],
                               vertex.x, vertex.y))

\* handleNormalMovement without the adjacency test
handleNormalMovementAnywhere(s, vertex) ==
  IF s.selectedVertex = << >> \/ getTokenAt(s.tokens, vertex.x, vertex.y) # 0
  THEN selectOwnToken(s, vertex, getTokenAt(s.tokens, vertex.x, vertex.y))
  ELSE moveOwnToken(s, vertex, selectedTokenIndex(s))

\* handleMovement, lines 1297-1343: the normal movement phase
handleNormalMovement(s, vertex) ==
  IF s.selectedVertex = << >> \/ getTokenAt(s.tokens, vertex.x, vertex.y) # 0
  THEN selectOwnToken(s, vertex, getTokenAt(s.tokens, vertex.x, vertex.y))
  ELSE IF isAdjacent(s.selectedVertex[1], vertex)
  THEN moveOwnToken(s, vertex, selectedTokenIndex(s))
  ELSE [s EXCEPT !.gameMessage = Message("cannotMove", NULL, 0, 0, 0)]

\* handleMovement(vertex)
handleMovement(s, vertex) ==
  IF s.millRemovalState = "removing" THEN handleMillRemoval(s, vertex)
  ELSE handleNormalMovement(s, vertex)

\* handleClick without the return for a won game
handleClickIgnoringWinner(s, vertex) ==
  IF s.gameState = "placement" THEN handlePlacement(s, vertex)
  ELSE IF s.gameState = "movement" THEN handleMovement(s, vertex)
  ELSE s

\* handleClick with a mill evaluation after each placement
handleClickWithMillsInPlacement(s, vertex) ==
  IF s.gameWinner # NULL THEN s
  ELSE IF s.gameState = "placement"
  THEN (IF getTokenAt(s.tokens, vertex.x, vertex.y) # 0 THEN s
        ELSE checkForMills(handlePlacement(s, vertex), vertex.x, vertex.y).state)
  ELSE IF s.gameState = "movement" THEN handleMovement(s, vertex)
  ELSE s

\* handleClick(event), for a pointer within 10 pixels of a vertex, which
\* findClosestVertex resolves to that vertex: no vertex lies in the area of
\* the New Game button, so a click on a vertex in a won game returns.
handleClick(s, vertex) ==
  IF s.gameWinner # NULL THEN s
  ELSE IF s.gameState = "placement" THEN handlePlacement(s, vertex)
  ELSE IF s.gameState = "movement" THEN handleMovement(s, vertex)
  ELSE s

(***************************************************************************)
(* The state machine: one variable per field of the GameBoard object, and  *)
(* two history variables: movesMade counts the token moves (moves and      *)
(* relocations) of the movement phase since the last reset; lastAction     *)
(* records the last move, relocation or reset: its kind, the vertex the    *)
(* token went to, and the phase it was made in.                            *)
(***************************************************************************)
VARIABLES gameState, currentPlayer, redTokensPlaced, blueTokensPlaced, tokens,
          selectedVertex, gameWinner, gameMessage, millRemovalState,
          highlightedMillTokens, millShapes, previousMills,
          remainingOpponentMoves, movedOpponentTokens, vertices, movesMade,
          lastAction

vars == << gameState, currentPlayer, redTokensPlaced, blueTokensPlaced, tokens,
           selectedVertex, gameWinner, gameMessage, millRemovalState,
           highlightedMillTokens, millShapes, previousMills,
           remainingOpponentMoves, movedOpponentTokens, vertices, movesMade,
           lastAction >>

fields ==
  [ gameState |-> gameState,
    currentPlayer |-> currentPlayer,
    redTokensPlaced |-> redTokensPlaced,
    blueTokensPlaced |-> blueTokensPlaced,
    tokens |-> tokens,
    selectedVertex |-> selectedVertex,
    gameWinner |-> gameWinner,
    gameMessage |-> gameMessage,
    millRemovalState |-> millRemovalState,
    highlightedMillTokens |-> highlightedMillTokens,
    millShapes |-> millShapes,
    previousMills |-> previousMills,
    remainingOpponentMoves |-> remainingOpponentMoves,
    movedOpponentTokens |-> movedOpponentTokens,
    vertices |-> vertices ]

becomes(s) ==
  /\ gameState' = s.gameState
  /\ currentPlayer' = s.currentPlayer
  /\ redTokensPlaced' = s.redTokensPlaced
  /\ blueTokensPlaced' = s.blueTokensPlaced
  /\ tokens' = s.tokens
  /\ selectedVertex' = s.selectedVertex
  /\ gameWinner' = s.gameWinner
  /\ gameMessage' = s.gameMessage
  /\ millRemovalState' = s.millRemovalState
  /\ highlightedMillTokens' = s.highlightedMillTokens
  /\ millShapes' = s.millShapes
  /\ previousMills' = s.previousMills
  /\ remainingOpponentMoves' = s.remainingOpponentMoves
  /\ movedOpponentTokens' = s.movedOpponentTokens
  /\ vertices' = s.vertices

(***************************************************************************)
(* The players.  The vertices are numbered by their place in               *)
(* this.vertices.  During placement the players follow placementPlan (red  *)
(* and blue in turn), except that the 29th and the 30th placement may go   *)
(* to a vertex that completes a hexagon instead, and a player may click    *)
(* the vertex placed last.  With the plan carried out, red holds all of    *)
(* hexagon 5 but vertex 23, and 24, 26 and 44 next to it; blue holds all   *)
(* of hexagon 3 but vertex 10, and 5, 9, 11, 12 and 42 next to it, and    *)
(* all of hexagon 1 (2, 3, 6, 9, 12, 15), which is not one of blue's; the  *)
(* other tokens are on the rim, where red's 12th and 13th placement        *)
(* complete the triangle (69, 70, 72) and the square (68, 69, 70, 71).     *)
(* In the movement phase the players click the vertices of arenaVertices,  *)
(* for at most MaxMoves token moves.                                       *)
(***************************************************************************)
MaxMoves == 6

placementPlan ==
  << 25,  8, 43, 32, 50, 34, 51, 37, 54, 40, 24, 42, 26,  5, 44,  9,
     69, 11, 71, 12, 72,  2, 70,  3, 68,  6, 65, 15, 63, 29 >>

placementAlternatives(n) ==
  IF n = 29 THEN { 23 } ELSE IF n = 30 THEN { 10 } ELSE {}

arenaVertices == { 5, 10, 13, 39, 42, 23, 24, 43 }

offeredClicks ==
  IF gameState = "placement"
  THEN (IF Len(tokens) < Len(placementPlan)
        THEN { placementPlan[Len(tokens) + 1] }
             \cup placementAlternatives(Len(tokens) + 1)
        ELSE {})
       \cup (IF Len(tokens) > 0 THEN { placementPlan[Len(tokens)] } ELSE {})
  ELSE IF movesMade < MaxMoves THEN arenaVertices ELSE {}

\* The phase of the current state
phase ==
  [ gameState |-> gameState,
    millRemovalState |-> millRemovalState,
    gameWinner |-> gameWinner ]

Init ==
  /\ gameState = initialState.gameState
  /\ currentPlayer = initialState.currentPlayer
  /\ redTokensPlaced = initialState.redTokensPlaced
  /\ blueTokensPlaced = initialState.blueTokensPlaced
  /\ tokens = initialState.tokens
  /\ selectedVertex = initialState.selectedVertex
  /\ gameWinner = initialState.gameWinner
  /\ gameMessage = initialState.gameMessage
  /\ millRemovalState = initialState.millRemovalState
  /\ highlightedMillTokens = initialState.highlightedMillTokens
  /\ millShapes = initialState.millShapes
  /\ previousMills = initialState.previousMills
  /\ remainingOpponentMoves = initialState.remainingOpponentMoves
  /\ movedOpponentTokens = initialState.movedOpponentTokens
  /\ vertices = initialState.vertices
  /\ movesMade = 0
  /\ lastAction = [kind |-> "none", vertex |-> 0, from |-> phase]

\* A click on vertex v of this.vertices: handleClick
ClickVertex(v) ==
  \E after \in { handleClick(fields, vertices[v]) } :
     /\ becomes(after)
     /\ movesMade' = IF gameState = "movement" /\ after.tokens # tokens
                     THEN movesMade + 1 ELSE movesMade
     /\ lastAction' = IF gameState = "movement" /\ after.tokens # tokens
                      THEN [ kind |-> IF millRemovalState = "removing"
                                      THEN "relocation" ELSE "move",
                             vertex |-> v,
                             from |-> phase ]
                      ELSE lastAction

\* resetGame(), from the New Game button or the page
NewGame ==
  /\ becomes(resetGame(fields))
  /\ movesMade' = 0
  /\ lastAction' = [kind |-> "reset", vertex |-> 0, from |-> phase]

Next ==
  \/ \E v \in offeredClicks : ClickVertex(v)
  \/ NewGame

Spec == Init /\ [][Next]_vars

(***************************************************************************)
(* The vertex list on its own: render() empties this.vertices and          *)
(* drawKensingtonHexagon feeds it the corners of the hexagons 1..7 in      *)
(* turn; processVertices is also fed arbitrary short corner sequences of   *)
(* points of a 3 x 3 grid with a pitch of 3 pixels, where neighbouring     *)
(* points are within the tolerance of 5 and points two apart are not.      *)
(* The game fields keep their initial values.                              *)
(***************************************************************************)
gridPoints == { << x, y >> : x \in { 0, 300, 600 }, y \in { 0, 300, 600 } }

gridCornerSequences ==
  { << >> } \cup { << p >> : p \in gridPoints }
            \cup { << p, q >> : p \in gridPoints, q \in gridPoints }

verticesAfterHexagon(h) ==
  CASE h = 0 -> << >>
    [] h = 1 -> verticesAfterHexagon1
    [] h = 2 -> verticesAfterHexagon2
    [] h = 3 -> verticesAfterHexagon3
    [] h = 4 -> verticesAfterHexagon4
    [] h = 5 -> verticesAfterHexagon5
    [] h = 6 -> verticesAfterHexagon6
    [] h = 7 -> verticesAfterHexagon7

gameVars ==
  << gameState, currentPlayer, redTokensPlaced, blueTokensPlaced, tokens,
     selectedVertex, gameWinner, gameMessage, millRemovalState,
     highlightedMillTokens, millShapes, previousMills,
     remainingOpponentMoves, movedOpponentTokens, movesMade, lastAction >>

\* The fields after the constructor and initializeGame, at the point where
\* render() has emptied this.vertices
InitVertices ==
  /\ gameState = initialState.gameState
  /\ currentPlayer = initialState.currentPlayer
  /\ redTokensPlaced = initialState.redTokensPlaced
  /\ blueTokensPlaced = initialState.blueTokensPlaced
  /\ tokens = initialState.tokens
  /\ selectedVertex = initialState.selectedVertex
  /\ gameWinner = initialState.gameWinner
  /\ gameMessage = initialState.gameMessage
  /\ millRemovalState = initialState.millRemovalState
  /\ highlightedMillTokens = initialState.highlightedMillTokens
  /\ millShapes = initialState.millShapes
  /\ previousMills = initialState.previousMills
  /\ remainingOpponentMoves = initialState.remainingOpponentMoves
  /\ movedOpponentTokens = initialState.movedOpponentTokens
  /\ vertices = << >>
  /\ movesMade = 0
  /\ lastAction = [kind |-> "none", vertex |-> 0, from |-> phase]

\* render(): this.vertices = []
ClearVertices ==
  /\ vertices' = << >>
  /\ UNCHANGED gameVars

\* drawKensingtonHexagon for hexagon h: processVertices(squareCorners), for
\* the first time or once more
DrawHexagon(h) ==
  /\ vertices \in { verticesAfterHexagon(h - 1), verticesAfterHexagon(h) }
  /\ vertices' = processVertices(vertices, squareCorners[h])
  /\ UNCHANGED gameVars

\* processVertices(corners) for a sequence of grid points, on a list of grid
\* points
ProcessGridCorners(corners) ==
  /\ \A i \in 1..Len(vertices) : << vertices[i].x, vertices[i].y >> \in gridPoints
  /\ vertices' = processVertices(vertices, corners)
  /\ UNCHANGED gameVars

NextVertices ==
  \/ ClearVertices
  \/ \E h \in 1..7 : DrawHexagon(h)
  \/ \E corners \in gridCornerSequences : ProcessGridCorners(corners)

VerticesSpec == InitVertices /\ [][NextVertices]_vars

(***************************************************************************)
(* The game with resize events between the clicks.  The window is          *)
(* 1024 x 430 or 1024 x 215; the players click, and start a new game,      *)
(* while it is 1024 x 430.                                                 *)
(***************************************************************************)
windowHeights == { 430, 215 }

ClickAtFullSize(v) ==
  /\ vertices = renderVertices
  /\ ClickVertex(v)

NewGameAtFullSize ==
  /\ vertices = renderVertices
  /\ NewGame

\* The resize event: handleResize() after the window took the given height
Resize(innerHeight) ==
  /\ becomes(handleResize(fields, innerHeight))
  /\ UNCHANGED << movesMade, lastAction >>

ResizeNext ==
  \/ \E v \in offeredClicks : ClickAtFullSize(v)
  \/ NewGameAtFullSize
  \/ \E innerHeight \in windowHeights : Resize(innerHeight)

ResizeSpec == Init /\ [][ResizeNext]_vars

(***************************************************************************)
(* The movement phase from a range of boards, for isTriangleMill and       *)
(* isSquareMill.  The 30 placements can go to any empty vertices, red and  *)
(* blue in turn, and handlePlacement looks for a win but for no mill, so   *)
(* every board with 15 tokens each on which checkForWin finds no winner is *)
(* a state at the start of the movement phase.  The boards here give each  *)
(* vertex of squareProbeVertices to red, to blue or to nobody, at most one *)
(* of them not to blue, and fill up with the vertices of redFillers and    *)
(* blueFillers.  The players then click the vertices of probeClicks, for   *)
(* at most MaxProbeMoves token moves.                                      *)
(***************************************************************************)
MaxProbeMoves == 2

\* The vertices from which the arguments of isSquareMill are drawn: the
\* square (9, 11, 12, 13) and vertex 8 of the triangle (8, 9, 13)
squareProbeVertices == { 8, 9, 11, 12, 13 }

redFillers == << 25, 43, 50, 51, 60, 24, 26, 67, 69, 71, 72, 70, 68, 65, 63 >>

blueFillers == << 32, 34, 37, 40, 42, 5, 2, 3, 6, 15, 29, 27 >>

probeColourings ==
  { c \in [ squareProbeVertices -> { RED, BLUE, NULL } ] :
      Cardinality({ v \in squareProbeVertices : c[v] # BLUE }) <= 1 }

\* The elements of a set of vertex numbers in ascending order
ascending(S) ==
  [ i \in 1..Cardinality(S) |->
      CHOOSE v \in S : Cardinality({ w \in S : w < v }) = i - 1 ]

\* The 15 vertices of a colour: those of the colouring, then fillers
verticesOfColour(c, colour, fillers) ==
  ascending({ v \in squareProbeVertices : c[v] = colour })
  \o SubSeq(fillers, 1, maxTokensPerPlayer
                          - Cardinality({ v \in squareProbeVertices : c[v] = colour }))

\* this.tokens after 30 placements, red's and blue's in turn
tokensPlaced(redVertices, blueVertices) ==
  [ i \in 1..(2 * maxTokensPerPlayer) |->
      IF i % 2 = 1
      THEN [ x |-> renderVertices[redVertices[(i + 1) \div 2]].x,
             y |-> renderVertices[redVertices[(i + 1) \div 2]].y,
             color |-> RED ]
      ELSE [ x |-> renderVertices[blueVertices[i \div 2]].x,
             y |-> renderVertices[blueVertices[i \div 2]].y,
             color |-> BLUE ] ]

\* The fields after the 30th placement (handlePlacement, lines 1223-1226)
movementStart(c) ==
  [ initialState EXCEPT
      !.gameState = "movement",
      !.redTokensPlaced = maxTokensPerPlayer,
      !.blueTokensPlaced = maxTokensPerPlayer,
      !.tokens = tokensPlaced(verticesOfColour(c, RED, redFillers),
                              verticesOfColour(c, BLUE, blueFillers)),
      !.gameMessage = Message("movementStarted", RED, 0, 0, 0) ]

InitMills ==
  \E start \in { movementStart(c) : c \in probeColourings } :
     /\ checkForWin(start).gameWinner = NULL
     /\ gameState = start.gameState
     /\ currentPlayer = start.currentPlayer
     /\ redTokensPlaced = start.redTokensPlaced
     /\ blueTokensPlaced = start.blueTokensPlaced
     /\ tokens = start.tokens
     /\ selectedVertex = start.selectedVertex
     /\ gameWinner = start.gameWinner
     /\ gameMessage = start.gameMessage
     /\ millRemovalState = start.millRemovalState
     /\ highlightedMillTokens = start.highlightedMillTokens
     /\ millShapes = start.millShapes
     /\ previousMills = start.previousMills
     /\ remainingOpponentMoves = start.remainingOpponentMoves
     /\ movedOpponentTokens = start.movedOpponentTokens
     /\ vertices = start.vertices
     /\ movesMade = 0
     /\ lastAction = [kind |-> "none", vertex |-> 0, from |-> phase]

\* The vertices clicked: those of squareProbeVertices, red's token on 24 and
\* the empty vertex 23 next to it
probeClicks == squareProbeVertices \cup { 23, 24 }

ClickProbeVertex(v) ==
  /\ movesMade < MaxProbeMoves
  /\ ClickVertex(v)

MillNext == \E v \in probeClicks : ClickProbeVertex(v)

MillSpec == InitMills /\ [][MillNext]_vars

(***************************************************************************)
(* One triangle held by red and then by blue.  The board at the start of   *)
(* the movement phase has red on 8 and 9 of the triangle (8, 9, 13) and on *)
(* 42 next to 13, blue on 10, 6 and 11 next to the triangle, and the other *)
(* tokens on vertices of no hexagon.  The players follow recapturePlan:    *)
(* red completes the triangle (42 -> 13) and relocates a token of blue,    *)
(* blue makes a move elsewhere, then red leaves the triangle move by move  *)
(* (8 -> 40, 9 -> 12, 13 -> 42) and blue enters it (10 -> 8, 6 -> 9,       *)
(* 11 -> 13).  For the relocation and for blue's move elsewhere (the       *)
(* second and third token move) the players click the vertices of          *)
(* freeZone.  A new game can be started at any time; it is not played.     *)
(***************************************************************************)
recaptureRed == << 8, 9, 42, 19, 22, 49, 52, 55, 57, 67, 69, 71, 72, 53, 62 >>

recaptureBlue == << 10, 6, 11, 14, 16, 18, 17, 27, 29, 36, 38, 63, 65, 66, 60 >>

\* The fields after the 30th placement (handlePlacement, lines 1223-1226)
recaptureStart ==
  [ initialState EXCEPT
      !.gameState = "movement",
      !.redTokensPlaced = maxTokensPerPlayer,
      !.blueTokensPlaced = maxTokensPerPlayer,
      !.tokens = tokensPlaced(recaptureRed, recaptureBlue),
      !.gameMessage = Message("movementStarted", RED, 0, 0, 0) ]

InitRecapture ==
  /\ checkForWin(recaptureStart).gameWinner = NULL
  /\ gameState = recaptureStart.gameState
  /\ currentPlayer = recaptureStart.currentPlayer
  /\ redTokensPlaced = recaptureStart.redTokensPlaced
  /\ blueTokensPlaced = recaptureStart.blueTokensPlaced
  /\ tokens = recaptureStart.tokens
  /\ selectedVertex = recaptureStart.selectedVertex
  /\ gameWinner = recaptureStart.gameWinner
  /\ gameMessage = recaptureStart.gameMessage
  /\ millRemovalState = recaptureStart.millRemovalState
  /\ highlightedMillTokens = recaptureStart.highlightedMillTokens
  /\ millShapes = recaptureStart.millShapes
  /\ previousMills = recaptureStart.previousMills
  /\ remainingOpponentMoves = recaptureStart.remainingOpponentMoves
  /\ movedOpponentTokens = recaptureStart.movedOpponentTokens
  /\ vertices = recaptureStart.vertices
  /\ movesMade = 0
  /\ lastAction = [kind |-> "none", vertex |-> 0, from |-> phase]

\* The clicks of the plan, two for each token move; 0 where the players
\* click in freeZone
recapturePlan ==
  << 42, 13, 0, 0, 0, 0, 8, 40, 10, 8, 9, 12, 6, 9, 13, 42, 11, 13 >>

freeZone == { 3, 4, 17, 27, 29, 30, 39, 41 }

\* The place in the plan: two clicks for each token move made, and one more
\* when a token is selected
placeInPlan == 2 * movesMade + (IF selectedVertex = << >> THEN 1 ELSE 2)

recaptureClicks ==
  IF gameState # "movement" \/ placeInPlan > Len(recapturePlan) THEN {}
  ELSE IF recapturePlan[placeInPlan] = 0 THEN freeZone
  ELSE { recapturePlan[placeInPlan] }

ClickPlanned(v) == ClickVertex(v)

RecaptureNext ==
  \/ \E v \in recaptureClicks : ClickPlanned(v)
  \/ NewGame

RecaptureSpec == InitRecapture /\ [][RecaptureNext]_vars

(***************************************************************************)
(* Properties.  The steps of the state machine are told apart by what      *)
(* they do to tokens: a placement appends a token, a move (in normal       *)
(* movement) and a relocation (in mill removal) change the place of one.   *)
(* The mills a move completes are described from the board alone: the      *)
(* triangles and the four-cycles of drawn lines through the vertex moved   *)
(* to, all of whose vertices hold the mover's colour.                      *)
(***************************************************************************)
placementStep == Len(tokens') = Len(tokens) + 1

moveStep ==
  /\ gameState = "movement" /\ millRemovalState # "removing"
  /\ Len(tokens') = Len(tokens) /\ tokens' # tokens

relocationStep ==
  /\ gameState = "movement" /\ millRemovalState = "removing"
  /\ Len(tokens') = Len(tokens) /\ tokens' # tokens

\* The colour of the token on a vertex, NULL for an empty vertex
occupantOf(toks, vertex) ==
  IF \E t \in 1..Len(toks) : toks[t].x = vertex.x /\ toks[t].y = vertex.y
  THEN toks[CHOOSE t \in 1..Len(toks) :
              toks[t].x = vertex.x /\ toks[t].y = vertex.y].color
  ELSE NULL

\* The vertices next to vertex j that hold the colour
ownNeighbours(toks, vs, j, colour) ==
  { a \in 1..Len(vs) : /\ a # j
                       /\ occupantOf(toks, vs[a]) = colour
                       /\ isAdjacent(vs[j], vs[a]) }

\* The triangles of the colour through vertex j, as sets of vertices
trianglesThrough(toks, vs, j, colour) ==
  { {j, p[1], p[2]} :
      p \in { q \in ownNeighbours(toks, vs, j, colour)
                    \X ownNeighbours(toks, vs, j, colour) :
                q[1] < q[2] /\ isAdjacent(vs[q[1]], vs[q[2]]) } }

\* The squares of the colour through vertex j, as sets of vertices: j, two
\* of its neighbours and a fourth vertex next to both
squaresThrough(toks, vs, j, colour) ==
  { {j, p[1], p[2], p[3]} :
      p \in { q \in ownNeighbours(toks, vs, j, colour)
                    \X ownNeighbours(toks, vs, j, colour)
                    \X { b \in 1..Len(vs) : b # j /\ occupantOf(toks, vs[b]) = colour } :
                /\ q[1] < q[2]
                /\ q[3] # q[1] /\ q[3] # q[2]
                /\ isAdjacent(vs[q[1]], vs[q[3]])
                /\ isAdjacent(vs[q[2]], vs[q[3]]) } }

\* The id of a mill given as a set of vertices
millIdOf(vs, M, type) ==
  [ type |-> type,
    sortedVertices |->
      [ k \in { roundedKey(vs[i]) : i \in M } |->
          Cardinality({ i \in M : roundedKey(vs[i]) = k }) ] ]

\* In a move or relocation step: the token moved, and the vertex it went to
movedToken == CHOOSE i \in 1..Len(tokens) : tokens'[i] # tokens[i]

destination ==
  CHOOSE j \in 1..Len(vertices) :
     vertices[j].x = tokens'[movedToken].x /\ vertices[j].y = tokens'[movedToken].y

\* In a move step: the mills the move completes, and those of them whose id
\* was not in previousMills before the move
completedTriangles ==
  trianglesThrough(tokens', vertices, destination, tokens[movedToken].color)

completedSquares ==
  squaresThrough(tokens', vertices, destination, tokens[movedToken].color)

newTriangles ==
  { M \in completedTriangles : millIdOf(vertices, M, "triangle") \notin previousMills }

newSquares ==
  { M \in completedSquares : millIdOf(vertices, M, "square") \notin previousMills }

min2(n) == IF n < 2 THEN n ELSE 2

\* C1: in placement with no win, gameState stays "placement" while fewer
\* than 30 tokens have been placed, becomes "movement" exactly on the
\* placement that brings redTokensPlaced and blueTokensPlaced both to 15 (the
\* 30th accepted placement), and currentPlayer is then red.
C1_PhaseChangeOnThirtiethPlacement ==
  [][ (placementStep /\ gameWinner' = NULL) =>
        /\ Len(tokens') < 30 => gameState' = "placement"
        /\ gameState' = "movement" <=>
             (redTokensPlaced' = 15 /\ blueTokensPlaced' = 15)
        /\ (redTokensPlaced' = 15 /\ blueTokensPlaced' = 15) <=> Len(tokens') = 30
        /\ gameState' = "movement" => currentPlayer' = RED ]_vars

C1_Witness ==
  /\ gameState = "movement" /\ gameWinner = NULL
  /\ Len(tokens) = 30 /\ redTokensPlaced = 15 /\ blueTokensPlaced = 15
  /\ currentPlayer = RED
  /\ gameMessage.kind = "movementStarted"

\* C2: after every completed move, remainingOpponentMoves is min(2, T + 2*S),
\* where T and S count the triangle and the square mills the move completes
\* whose id was not in previousMills before the move.
C2_AllowanceIsCappedSum ==
  [][ moveStep =>
        remainingOpponentMoves' =
          min2(Cardinality(newTriangles) + 2 * Cardinality(newSquares)) ]_vars

C2_Witness ==
  /\ millRemovalState = "removing" /\ gameWinner = NULL
  /\ movedOpponentTokens = << >>
  /\ Cardinality({ m \in millShapes : m.type = "triangle" }) = 1
  /\ Cardinality({ m \in millShapes : m.type = "square" }) = 1
  /\ remainingOpponentMoves = 2

\* C3: in every reachable state remainingOpponentMoves is 0, 1 or 2.
C3_AllowanceInRange == remainingOpponentMoves \in {0, 1, 2}

C3_Witness ==
  /\ lastAction.kind = "relocation"
  /\ millRemovalState = "removing"
  /\ Len(movedOpponentTokens) = 1
  /\ remainingOpponentMoves = 1

\* C4: between two resets a mill grants a capture allowance at most once:
\* previousMills only grows, the mills a move is granted for are mills whose
\* id was not yet in previousMills and is in it afterwards, and a move that
\* completes only mills already in previousMills opens no mill removal.
C4_MillGrantsOnce ==
  [][ /\ (tokens' # << >>) => previousMills \subseteq previousMills'
      /\ moveStep =>
           /\ \A shape \in millShapes' :
                 /\ createMillId(shape.vertices, shape.type) \notin previousMills
                 /\ createMillId(shape.vertices, shape.type) \in previousMills'
           /\ \A M \in completedTriangles :
                 millIdOf(vertices, M, "triangle") \in previousMills'
           /\ \A M \in completedSquares :
                 millIdOf(vertices, M, "square") \in previousMills'
           /\ (newTriangles = {} /\ newSquares = {}) =>
                 /\ millRemovalState' = NULL
                 /\ millShapes' = {}
                 /\ remainingOpponentMoves' = remainingOpponentMoves ]_vars

\* A token was moved back to where it completes a triangle again, and the
\* game went on without a mill removal.
C4_Witness ==
  /\ lastAction.kind = "move"
  /\ gameWinner = NULL /\ millRemovalState = NULL
  /\ \E M \in trianglesThrough(tokens, vertices, lastAction.vertex,
                               occupantOf(tokens, vertices[lastAction.vertex])) :
        millIdOf(vertices, M, "triangle") \in previousMills
  /\ currentPlayer # occupantOf(tokens, vertices[lastAction.vertex])

\* C5: a completed move that forms at least one new mill sets
\* millRemovalState to "removing" with remainingOpponentMoves the allowance,
\* clears selectedVertex and leaves currentPlayer; one new triangle and no
\* new square gives remainingOpponentMoves = 1.
C5_NewMillOpensRemoval ==
  [][ (moveStep /\ (newTriangles # {} \/ newSquares # {})) =>
        /\ millRemovalState' = "removing"
        /\ remainingOpponentMoves' \in {1, 2}
        /\ remainingOpponentMoves' =
             min2(Cardinality(newTriangles) + 2 * Cardinality(newSquares))
        /\ selectedVertex' = << >>
        /\ currentPlayer' = currentPlayer
        /\ (Cardinality(newTriangles) = 1 /\ newSquares = {}) =>
              remainingOpponentMoves' = 1 ]_vars

C5_Witness ==
  /\ lastAction.kind = "move"
  /\ millRemovalState = "removing" /\ gameWinner = NULL
  /\ selectedVertex = << >> /\ movedOpponentTokens = << >>
  /\ currentPlayer = occupantOf(tokens, vertices[lastAction.vertex])
  /\ Cardinality(millShapes) = 1
  /\ \A m \in millShapes : m.type = "triangle"
  /\ remainingOpponentMoves = 1

\* C6: a relocation that brings remainingOpponentMoves to 0 with no win sets
\* millRemovalState to null and switches currentPlayer; a relocation that
\* triggers a win leaves currentPlayer; while remainingOpponentMoves stays
\* above 0 with no win, millRemovalState stays "removing" and currentPlayer
\* is unchanged.
C6_RelocationEndsOrContinues ==
  [][ relocationStep =>
        /\ remainingOpponentMoves' = remainingOpponentMoves - 1
        /\ (remainingOpponentMoves' = 0 /\ gameWinner' = NULL) =>
              /\ millRemovalState' = NULL
              /\ currentPlayer' = otherPlayer(currentPlayer)
        /\ gameWinner' # NULL => currentPlayer' = currentPlayer
        /\ (remainingOpponentMoves' > 0 /\ gameWinner' = NULL) =>
              /\ millRemovalState' = "removing"
              /\ currentPlayer' = currentPlayer ]_vars

C6_Witness ==
  /\ lastAction.kind = "relocation"
  /\ remainingOpponentMoves = 0 /\ gameWinner = NULL
  /\ millRemovalState = NULL /\ selectedVertex = << >>
  /\ currentPlayer = occupantOf(tokens, vertices[lastAction.vertex])
  /\ gameMessage.kind = "turnToMove"

\* C7: isHexagonSurrounded(h, C) is true if and only if hexagon h has at
\* least 6 member vertices and every one of them holds a token of colour C.
C7_SurroundedIffAllMembersHeld ==
  \A h \in 1..7 : \A colour \in {RED, BLUE} :
     isHexagonSurrounded(fields, h, colour) <=>
       /\ Cardinality(getHexagonVertices(vertices, getHexagonCenter(h))) >= 6
       /\ \A m \in getHexagonVertices(vertices, getHexagonCenter(h)) :
             occupantOf(tokens, vertices[m]) = colour

C7_Witness ==
  /\ lastAction.kind = "relocation"
  /\ isHexagonSurrounded(fields, 3, BLUE)
  /\ \E m \in getHexagonVertices(vertices, getHexagonCenter(5)) :
        occupantOf(tokens, vertices[m]) = NULL
  /\ ~ isHexagonSurrounded(fields, 5, RED)

\* C8, as stated: whenever a click changes gameWinner from null to a colour,
\* that colour is the player who was currentPlayer when the click was made.
C8_WinnerIsCurrentPlayer ==
  [][ (gameWinner = NULL /\ gameWinner' # NULL) => gameWinner' = currentPlayer ]_vars

\* C8, amended: whenever a click changes gameWinner from null to a colour,
\* that colour is the colour of the token the click placed or moved: the
\* current player for a placement or a move, the opponent for a relocation
\* during mill removal.
C8_WinnerIsColourOfTokenMoved ==
  [][ (gameWinner = NULL /\ gameWinner' # NULL) =>
        /\ placementStep \/ moveStep \/ relocationStep
        /\ placementStep =>
              /\ gameWinner' = tokens'[Len(tokens')].color
              /\ gameWinner' = currentPlayer
        /\ moveStep =>
              /\ gameWinner' = tokens[movedToken].color
              /\ gameWinner' = currentPlayer
        /\ relocationStep =>
              /\ gameWinner' = tokens[movedToken].color
              /\ gameWinner' = otherPlayer(currentPlayer) ]_vars

C8_Witness ==
  /\ lastAction.kind = "relocation"
  /\ gameWinner # NULL
  /\ gameWinner # currentPlayer
  /\ gameWinner = occupantOf(tokens, vertices[lastAction.vertex])

\* C9: when a placement triggers a win, gameState remains "placement" and
\* currentPlayer is not reassigned, for every placement including the one
\* that completes both players' quotas of 15.
C9_WinKeepsPlacementPhase ==
  [][ (placementStep /\ gameWinner = NULL /\ gameWinner' # NULL) =>
        /\ gameState' = "placement"
        /\ currentPlayer' = currentPlayer ]_vars

\* The 30th placement completed a hexagon: the game is won and in movement.
C9_Witness ==
  /\ gameWinner = BLUE /\ Len(tokens) = 30
  /\ gameState = "movement" /\ currentPlayer = RED
  /\ lastAction.kind # "move" /\ lastAction.kind # "relocation"
  /\ movesMade = 0

\* C10: from every reachable state resetGame yields the initial game state:
\* gameState "placement", currentPlayer red, no tokens placed, selectedVertex
\* null, gameWinner null, millRemovalState null, remainingOpponentMoves 0,
\* previousMills, millShapes and highlightedMillTokens empty.
C10_ResetYieldsInitialState ==
  \A r \in { resetGame(fields) } :
     /\ r.gameState = "placement" /\ r.currentPlayer = RED
     /\ r.redTokensPlaced = 0 /\ r.blueTokensPlaced = 0
     /\ r.tokens = << >>
     /\ r.selectedVertex = << >>
     /\ r.gameWinner = NULL
     /\ r.millRemovalState = NULL
     /\ r.remainingOpponentMoves = 0
     /\ r.previousMills = {} /\ r.millShapes = {} /\ r.highlightedMillTokens = {}
     /\ r = initialState

C10_Witness ==
  /\ lastAction.kind = "reset"
  /\ lastAction.from.millRemovalState = "removing"
  /\ fields = initialState

\* C11: isAdjacent is symmetric and irreflexive on the vertices of the
\* board: isAdjacent(a, b) = isAdjacent(b, a), and isAdjacent(a, a) is false.
C11_AdjacencySymmetricIrreflexive ==
  \A a \in 1..Len(vertices) :
     /\ ~ isAdjacent(vertices[a], vertices[a])
     /\ \A b \in (a + 1)..Len(vertices) :
           isAdjacent(vertices[a], vertices[b]) <=> isAdjacent(vertices[b], vertices[a])

\* A token has moved along a drawn line, and the board has pairs of
\* vertices that are adjacent and pairs that are not.
C11_Witness ==
  /\ lastAction.kind = "move"
  /\ \E a \in 1..Len(vertices) : \E b \in 1..Len(vertices) :
        /\ vertices[a].x > vertices[b].x
        /\ isAdjacent(vertices[a], vertices[b])
        /\ isAdjacent(vertices[b], vertices[a])
  /\ \E a \in 1..Len(vertices) : \E b \in 1..Len(vertices) :
        a # b /\ ~ isAdjacent(vertices[a], vertices[b])

\* Two vertices within the tolerance of processVertices of each other
withinTolerance(v, w) == Abs(v.x - w.x) < 500 /\ Abs(v.y - w.y) < 500

\* C12: feeding processVertices a corner sequence it has consumed adds no
\* vertex and changes none; no two vertices of the list lie within the
\* tolerance of 5 of each other; an empty corner sequence yields an empty
\* vertex list.
C12_DeduplicationIdempotent ==
  /\ \A corners \in gridCornerSequences \cup { squareCorners[h] : h \in 1..7 } :
        processVertices(processVertices(vertices, corners), corners)
          = processVertices(vertices, corners)
  /\ \A i \in 1..Len(vertices) : \A j \in 1..Len(vertices) :
        i # j => ~ withinTolerance(vertices[i], vertices[j])
  /\ processVertices(<< >>, << >>) = << >>
  /\ processVertices(vertices, << >>) = vertices

\* The list after two corners were consumed of which the second was within
\* the tolerance of the first, and was dropped.
C12_Witness ==
  /\ Len(vertices) = 1
  /\ \E corners \in gridCornerSequences :
        /\ Len(corners) = 2 /\ corners[1] # corners[2]
        /\ vertices = processVertices(<< >>, corners)

\* The fields a handler leaves, but for gameMessage
withoutMessage(s) == [s EXCEPT !.gameMessage = NULL]

\* C13: once gameWinner is non-null, no vertex click changes tokens,
\* currentPlayer, gameState, selectedVertex, millRemovalState,
\* remainingOpponentMoves, previousMills or gameWinner; resetGame leaves the
\* won state.
C13_WonIsTerminal ==
  gameWinner # NULL =>
    /\ \A v \in 1..Len(vertices) :
          \A after \in { handleClick(fields, vertices[v]) } :
             /\ after.tokens = tokens
             /\ after.currentPlayer = currentPlayer
             /\ after.gameState = gameState
             /\ after.selectedVertex = selectedVertex
             /\ after.millRemovalState = millRemovalState
             /\ after.remainingOpponentMoves = remainingOpponentMoves
             /\ after.previousMills = previousMills
             /\ after.gameWinner = gameWinner
    /\ resetGame(fields).gameWinner = NULL

\* A game won by a move that also formed a mill: the mill removal is open
\* and the game is over.
C13_Witness ==
  /\ gameWinner # NULL
  /\ gameState = "movement"
  /\ millRemovalState = "removing" /\ remainingOpponentMoves > 0
  /\ \E v \in arenaVertices : occupantOf(tokens, vertices[v]) = otherPlayer(currentPlayer)

\* The number of tokens of a colour
tokenCount(toks, colour) ==
  Cardinality({ t \in 1..Len(toks) : toks[t].color = colour })

\* C14: the number of tokens of each colour equals that colour's
\* tokensPlaced counter and never exceeds 15; between resets it never
\* decreases; throughout the movement phase each colour has exactly 15.
C14_TokensNeverDeleted ==
  /\ [](/\ tokenCount(tokens, RED) = redTokensPlaced
        /\ tokenCount(tokens, BLUE) = blueTokensPlaced
        /\ redTokensPlaced <= 15 /\ blueTokensPlaced <= 15
        /\ Len(tokens) = redTokensPlaced + blueTokensPlaced
        /\ gameState = "movement" =>
              tokenCount(tokens, RED) = 15 /\ tokenCount(tokens, BLUE) = 15)
  /\ [][ tokens' # << >> =>
           /\ tokenCount(tokens', RED) >= tokenCount(tokens, RED)
           /\ tokenCount(tokens', BLUE) >= tokenCount(tokens, BLUE) ]_vars

C14_Witness ==
  /\ lastAction.kind = "relocation"
  /\ movesMade >= 3
  /\ tokenCount(tokens, RED) = 15 /\ tokenCount(tokens, BLUE) = 15

\* C15: in the placement phase a click on a vertex that holds a token
\* leaves tokens, redTokensPlaced, blueTokensPlaced, currentPlayer, gameState
\* and gameWinner unchanged.
C15_OccupiedPlacementIsNoOp ==
  gameState = "placement" =>
    \A v \in 1..Len(vertices) :
       occupantOf(tokens, vertices[v]) # NULL =>
         \A after \in { handleClick(fields, vertices[v]) } :
            /\ after.tokens = tokens
            /\ after.redTokensPlaced = redTokensPlaced
            /\ after.blueTokensPlaced = blueTokensPlaced
            /\ after.currentPlayer = currentPlayer
            /\ after.gameState = gameState
            /\ after.gameWinner = gameWinner

C15_Witness ==
  /\ gameState = "placement" /\ gameWinner = NULL
  /\ Len(tokens) = 12
  /\ \E v \in offeredClicks : occupantOf(tokens, vertices[v]) # NULL

\* C16: in movement with a token of the current player selected, a click on
\* an empty vertex not adjacent to the selected vertex sets gameMessage to
\* the cannot-move advisory and leaves tokens, selectedVertex, currentPlayer,
\* millRemovalState, remainingOpponentMoves, previousMills and gameWinner
\* unchanged.
C16_NonAdjacentMoveRejected ==
  ( /\ gameState = "movement" /\ gameWinner = NULL
    /\ millRemovalState # "removing"
    /\ selectedVertex # << >> ) =>
    /\ occupantOf(tokens, selectedVertex[1]) = currentPlayer
    /\ \A v \in 1..Len(vertices) :
          ( /\ occupantOf(tokens, vertices[v]) = NULL
            /\ ~ isAdjacent(selectedVertex[1], vertices[v]) ) =>
            \A after \in { handleClick(fields, vertices[v]) } :
               /\ after.gameMessage = Message("cannotMove", NULL, 0, 0, 0)
               /\ withoutMessage(after) = withoutMessage(fields)

C16_Witness ==
  /\ gameState = "movement" /\ gameWinner = NULL
  /\ millRemovalState = NULL
  /\ selectedVertex # << >>
  /\ gameMessage.kind = "cannotMove"

\* The clicks that are rejected: in placement a vertex that holds a token; in
\* normal movement a token of the opponent (selected or as the target), and,
\* with a token selected, an empty vertex not adjacent to it.
rejectedClick(v) ==
  /\ gameWinner = NULL
  /\ \/ gameState = "placement" /\ occupantOf(tokens, vertices[v]) # NULL
     \/ /\ gameState = "movement" /\ millRemovalState # "removing"
        /\ occupantOf(tokens, vertices[v]) = otherPlayer(currentPlayer)
     \/ /\ gameState = "movement" /\ millRemovalState # "removing"
        /\ selectedVertex # << >>
        /\ occupantOf(tokens, vertices[v]) = NULL
        /\ ~ isAdjacent(selectedVertex[1], vertices[v])

\* C17: every rejected click updates gameMessage to an advisory message and
\* leaves all other game state unchanged.
C17_RejectedClickAdvises ==
  \A v \in 1..Len(vertices) :
     rejectedClick(v) =>
       \A after \in { handleClick(fields, vertices[v]) } :
          /\ \/ after.gameMessage.kind = "cannotMove"
             \/ after.gameMessage # gameMessage
          /\ withoutMessage(after) = withoutMessage(fields)

\* A rejected click that leaves gameMessage as it was.
C17_Witness ==
  \E v \in offeredClicks :
     /\ rejectedClick(v)
     /\ handleClick(fields, vertices[v]) = fields

\* C18: a completed move that forms no new mill and triggers no win
\* switches currentPlayer, leaves millRemovalState null and
\* remainingOpponentMoves 0, and clears selectedVertex, also when the move
\* re-forms mills already in previousMills.
C18_QuietMoveSwitchesPlayer ==
  [][ (moveStep /\ newTriangles = {} /\ newSquares = {} /\ gameWinner' = NULL) =>
        /\ currentPlayer' = otherPlayer(currentPlayer)
        /\ currentPlayer' # tokens[movedToken].color
        /\ millRemovalState' = NULL
        /\ remainingOpponentMoves' = 0
        /\ selectedVertex' = << >> ]_vars

\* A move to a vertex where the token completes no mill at all has passed
\* the turn.
C18_Witness ==
  /\ lastAction.kind = "move"
  /\ gameWinner = NULL /\ millRemovalState = NULL
  /\ remainingOpponentMoves = 0 /\ selectedVertex = << >>
  /\ gameMessage = Message("turnToMove", currentPlayer, 0, 0, 0)
  /\ occupantOf(tokens, vertices[lastAction.vertex]) = otherPlayer(currentPlayer)
  /\ trianglesThrough(tokens, vertices, lastAction.vertex,
                      otherPlayer(currentPlayer)) = {}
  /\ squaresThrough(tokens, vertices, lastAction.vertex,
                    otherPlayer(currentPlayer)) = {}

\* The hexagons whose occupation wins for the colour
eligibleRegions(colour) == IF colour = RED THEN 1..5 ELSE 3..7

\* Hexagon h has at least 6 member vertices and the colour holds them all
regionHeldBy(toks, h, colour) ==
  /\ Cardinality(getHexagonVertices(vertices, getHexagonCenter(h))) >= 6
  /\ \A m \in getHexagonVertices(vertices, getHexagonCenter(h)) :
        occupantOf(toks, vertices[m]) = colour

\* C19: in every reachable state with no winner, no hexagon among 1-5 has
\* all its member vertices occupied by red and no hexagon among 3-7 has all
\* its member vertices occupied by blue; and whenever gameWinner is a colour,
\* some hexagon eligible for that colour is fully occupied by it.
C19_WinnerIffEligibleRegionHeld ==
  /\ gameWinner = NULL =>
        \A colour \in {RED, BLUE} : \A h \in eligibleRegions(colour) :
           ~ regionHeldBy(tokens, h, colour)
  /\ gameWinner # NULL =>
        \E h \in eligibleRegions(gameWinner) : regionHeldBy(tokens, h, gameWinner)

C19_Witness ==
  /\ lastAction.kind = "relocation"
  /\ remainingOpponentMoves = 1
  /\ gameWinner = RED
  /\ regionHeldBy(tokens, 5, RED)

\* C20, as stated: whenever all member vertices (at least 6) of any one of
\* the seven hexagons hold tokens of one colour after an action, gameWinner
\* becomes that colour.
C20_AnyRegionWins ==
  [][ tokens' # tokens =>
        \A colour \in {RED, BLUE} : \A h \in 1..7 :
           regionHeldBy(tokens', h, colour) => gameWinner' = colour ]_vars

\* C20, amended: whenever all member vertices (at least 6) of a hexagon
\* eligible for a colour (1-5 for red, 3-7 for blue) hold tokens of that
\* colour after an action, gameWinner becomes that colour; a colour that
\* holds only a hexagon of the other colour (6, 7 for red, 1, 2 for blue)
\* has not won by it.
C20_EligibleRegionWins ==
  [][ tokens' # tokens =>
        \A colour \in {RED, BLUE} :
           /\ \A h \in eligibleRegions(colour) :
                 regionHeldBy(tokens', h, colour) => gameWinner' = colour
           /\ (/\ \E h \in 1..7 : regionHeldBy(tokens', h, colour)
               /\ \A h \in eligibleRegions(colour) :
                     ~ regionHeldBy(tokens', h, colour))
                => gameWinner' # colour ]_vars

C20_Witness ==
  /\ lastAction.kind = "move"
  /\ regionHeldBy(tokens, 1, BLUE)
  /\ regionHeldBy(tokens, 3, BLUE)
  /\ gameWinner = BLUE

C22_MoveHasExactlyOneOutcome ==
  [][ moveStep =>
        /\ Cardinality({ outcome \in {"removal", "switch", "won"} :
              \/ outcome = "removal" /\ millRemovalState' = "removing"
              \/ outcome = "switch" /\ currentPlayer' # currentPlayer
              \/ outcome = "won" /\ gameWinner' # NULL }) = 1
        /\ ((newTriangles # {} \/ newSquares # {}) /\ gameWinner' # NULL) =>
              (millRemovalState' # "removing" /\ remainingOpponentMoves' = 0) ]_vars

C22_Witness ==
  /\ lastAction.kind = "move"
  /\ gameWinner = BLUE
  /\ regionHeldBy(tokens, 3, BLUE)
  /\ millRemovalState = "removing"
  /\ remainingOpponentMoves > 0
  /\ previousMills # {}

\* All triangles and all squares of the colour on the board
standingTriangles(toks, vs, colour) ==
  UNION { trianglesThrough(toks, vs, j, colour) :
            j \in { i \in 1..Len(vs) : occupantOf(toks, vs[i]) = colour } }

standingSquares(toks, vs, colour) ==
  UNION { squaresThrough(toks, vs, j, colour) :
            j \in { i \in 1..Len(vs) : occupantOf(toks, vs[i]) = colour } }

\* The vertices of a reported mill or of a shape of millShapes, as a set
pointsOf(mill) == { mill[i] : i \in 1..Len(mill) }

\* In a move step: a triangle or square M of the mover's colour that does not
\* contain the vertex moved to is not reported, is not drawn as a mill and
\* its id is not added to previousMills.
notCounted(M, type, reported) ==
  /\ \A mill \in reported : pointsOf(mill) # { vertices[k] : k \in M }
  /\ \A shape \in millShapes' : pointsOf(shape.vertices) # { vertices[k] : k \in M }
  /\ millIdOf(vertices, M, type) \notin (previousMills' \ previousMills)

\* C23: every mill reported by findTriangleMills / findSquareMills for a move
\* contains the vertex the token was moved to and consists only of vertices
\* occupied by the mover's colour; a triangle or square of that colour that
\* does not contain the moved-to vertex is not reported, is not added to
\* previousMills, and a move that completes nothing through the moved-to
\* vertex grants no capture.
C23_OnlyMillsThroughMovedToken ==
  [][ moveStep =>
        \A colour \in { tokens[movedToken].color } :
        \A after \in { fields' } :
        \A target \in { destination } :
        \A reported \in { findTriangleMills(after, colour, vertices[target].x,
                                            vertices[target].y)
                          \cup findSquareMills(after, colour, vertices[target].x,
                                               vertices[target].y) } :
           /\ \A mill \in reported :
                 /\ vertices[target] \in pointsOf(mill)
                 /\ \A p \in pointsOf(mill) : occupantOf(after.tokens, p) = colour
           /\ \A M \in standingTriangles(after.tokens, vertices, colour) :
                 target \notin M => notCounted(M, "triangle", reported)
           /\ \A M \in standingSquares(after.tokens, vertices, colour) :
                 target \notin M => notCounted(M, "square", reported)
           /\ (completedTriangles = {} /\ completedSquares = {}) =>
                 /\ reported = {}
                 /\ previousMills' = previousMills
                 /\ millRemovalState' = NULL /\ remainingOpponentMoves' = 0 ]_vars

C23_Witness ==
  /\ lastAction.kind = "move"
  /\ millRemovalState = NULL /\ remainingOpponentMoves = 0
  /\ \E colour \in { occupantOf(tokens, vertices[lastAction.vertex]) } :
        /\ currentPlayer = otherPlayer(colour)
        /\ \E M \in standingTriangles(tokens, vertices, colour) :
              /\ lastAction.vertex \notin M
              /\ millIdOf(vertices, M, "triangle") \notin previousMills

\* The vertices from which the arguments of isTriangleMill and isSquareMill
\* are drawn: the vertices the players move between and those around them
probeVertices == { 5, 6, 8, 9, 10, 11, 12, 13, 23, 24, 26, 42 }

\* All the given vertices hold tokens of one colour
heldByOneColour(toks, points) ==
  \E colour \in {RED, BLUE} : \A p \in points : occupantOf(toks, p) = colour

\* C24: isTriangleMill(v1, v2, v3) is true if and only if the three vertices
\* all hold tokens of one colour and the pairs (v1, v2), (v1, v3) and
\* (v2, v3) are all adjacent under isAdjacent, the predicate that validates
\* a move.
C24_TriangleMillIffPairwiseAdjacent ==
  \A a \in probeVertices : \A b \in probeVertices : \A c \in probeVertices :
     isTriangleMill(fields, vertices[a], vertices[b], vertices[c]) <=>
       /\ heldByOneColour(tokens, { vertices[a], vertices[b], vertices[c] })
       /\ isAdjacent(vertices[a], vertices[b])
       /\ isAdjacent(vertices[a], vertices[c])
       /\ isAdjacent(vertices[b], vertices[c])

C24_Witness ==
  /\ gameState = "movement" /\ lastAction.kind = "move"
  /\ \E a \in probeVertices : \E b \in probeVertices : \E c \in probeVertices :
        /\ a < b /\ b < c
        /\ lastAction.vertex \in { a, b, c }
        /\ isTriangleMill(fields, vertices[a], vertices[b], vertices[c])
  /\ \E a \in probeVertices : \E b \in probeVertices : \E c \in probeVertices :
        /\ heldByOneColour(tokens, { vertices[a], vertices[b], vertices[c] })
        /\ isAdjacent(vertices[a], vertices[b])
        /\ isAdjacent(vertices[a], vertices[c])
        /\ b # c /\ ~ isAdjacent(vertices[b], vertices[c])
        /\ ~ isTriangleMill(fields, vertices[a], vertices[b], vertices[c])
  /\ \E a \in probeVertices : \E b \in probeVertices : \E c \in probeVertices :
        /\ isAdjacent(vertices[a], vertices[b])
        /\ isAdjacent(vertices[a], vertices[c])
        /\ isAdjacent(vertices[b], vertices[c])
        /\ occupantOf(tokens, vertices[a]) # NULL
        /\ ~ heldByOneColour(tokens, { vertices[a], vertices[b], vertices[c] })
        /\ ~ isTriangleMill(fields, vertices[a], vertices[b], vertices[c])

\* The ways of arranging four arguments in a cycle
arrangements == { p \in [1..4 -> 1..4] : \A i \in 1..4 : \E j \in 1..4 : p[j] = i }

\* Some arrangement of the four vertices is a cycle of adjacent vertices
hasCyclicOrdering(q) ==
  \E p \in arrangements :
     \A i \in 1..4 :
        isAdjacent(renderVertices[q[p[i]]], renderVertices[q[p[(i % 4) + 1]]])

\* The quadruples of squareProbeVertices that can be arranged in a cycle
cyclicQuadruples ==
  { q \in squareProbeVertices \X squareProbeVertices
          \X squareProbeVertices \X squareProbeVertices : hasCyclicOrdering(q) }

\* Rearranging a quadruple that can be arranged in a cycle gives one that can
cyclicQuadruplesClosed ==
  \A q \in cyclicQuadruples : \A p \in arrangements :
     << q[p[1]], q[p[2]], q[p[3]], q[p[4]] >> \in cyclicQuadruples

\* C25: isSquareMill(v1, v2, v3, v4) is true if and only if the four
\* vertices all hold tokens of one colour and some cyclic ordering of the
\* four has every consecutive pair, the wrap-around pair included, adjacent;
\* that condition is the same for every order of the four, so the result
\* does not depend on the order in which they are passed.
C25_SquareMillIffSomeCycle ==
  /\ cyclicQuadruplesClosed
  /\ \A held \in { [ v \in squareProbeVertices |-> occupantOf(tokens, vertices[v]) ] } :
     \A a \in squareProbeVertices : \A b \in squareProbeVertices :
     \A c \in squareProbeVertices : \A d \in squareProbeVertices :
        isSquareMill(fields, vertices[a], vertices[b], vertices[c], vertices[d]) <=>
          /\ held[a] # NULL
          /\ held[b] = held[a] /\ held[c] = held[a] /\ held[d] = held[a]
          /\ << a, b, c, d >> \in cyclicQuadruples

C25_Witness ==
  /\ vertices = renderVertices
  /\ gameState = "movement" /\ Len(tokens) = 2 * maxTokensPerPlayer
  /\ isSquareMill(fields, vertices[9], vertices[12], vertices[11], vertices[13])
  /\ isSquareMill(fields, vertices[9], vertices[11], vertices[12], vertices[13])
  /\ isSquareMill(fields, vertices[11], vertices[9], vertices[12], vertices[13])
  /\ ~ isSquareMill(fields, vertices[8], vertices[9], vertices[13], vertices[11])
  /\ heldByOneColour(tokens, { vertices[8], vertices[9], vertices[13], vertices[11] })

\* C26: after each mill evaluation previousMills is its previous value united
\* with the ids of all mills detected on that move, new or repeated;
\* previousMills loses no element except through resetGame, and a relocation,
\* the one that ends a mill-removal phase included, leaves it as it was.
C26_PreviousMillsAccumulate ==
  [][ /\ moveStep =>
           previousMills' =
             previousMills
             \cup { millIdOf(vertices, M, "triangle") : M \in completedTriangles }
             \cup { millIdOf(vertices, M, "square") : M \in completedSquares }
      /\ relocationStep => previousMills' = previousMills
      /\ \/ previousMills \subseteq previousMills'
         \/ fields' = resetGame(fields) ]_vars

C26_Witness ==
  /\ lastAction.kind = "relocation"
  /\ lastAction.from.millRemovalState = "removing"
  /\ millRemovalState = NULL /\ gameWinner = NULL
  /\ Cardinality(previousMills) >= 3

\* C27: mill detection never runs during placement: whatever triangles and
\* squares the placements complete, millRemovalState stays null,
\* remainingOpponentMoves stays 0 and previousMills (with the mill shapes
\* and highlights) stays empty until the first completed move of the
\* movement phase.
C27_NoMillsBeforeFirstMove ==
  (gameState = "placement" \/ movesMade = 0) =>
     /\ millRemovalState = NULL
     /\ remainingOpponentMoves = 0
     /\ previousMills = {}
     /\ millShapes = {} /\ highlightedMillTokens = {}

C27_Witness ==
  /\ gameState = "placement" /\ gameWinner = NULL
  /\ { 69, 70, 72 } \in standingTriangles(tokens, vertices, RED)
  /\ { 68, 69, 70, 71 } \in standingSquares(tokens, vertices, RED)
  /\ standingTriangles(tokens, vertices, BLUE) = {}
  /\ previousMills = {} /\ millRemovalState = NULL

\* The mill-removal phase with no token selected
awaitingOpponentToken ==
  /\ gameState = "movement" /\ millRemovalState = "removing"
  /\ gameWinner = NULL /\ selectedVertex = << >>

\* C28: in mill removal with no token selected, a click on a token of the
\* opponent sets selectedVertex to its vertex (and the message) and nothing
\* else; a click on an empty vertex or on a token of the current player
\* changes nothing: tokens, selectedVertex, remainingOpponentMoves,
\* currentPlayer and millRemovalState, like every other field, are as before.
C28_RemovalFirstClickSelectsOpponent ==
  awaitingOpponentToken =>
     \A v \in 1..Len(vertices) :
     \A after \in { handleClick(fields, vertices[v]) } :
        IF occupantOf(tokens, vertices[v]) = otherPlayer(currentPlayer)
        THEN /\ after.selectedVertex = << vertices[v] >>
             /\ after.gameMessage.kind = "selectedOpponent"
             /\ withoutMessage(after)
                  = withoutMessage([fields EXCEPT !.selectedVertex = << vertices[v] >>])
        ELSE after = fields

C28_Witness ==
  /\ awaitingOpponentToken
  /\ lastAction.kind = "relocation" /\ remainingOpponentMoves = 1
  /\ \E v \in offeredClicks :
        /\ occupantOf(tokens, vertices[v]) = NULL
        /\ handleClick(fields, vertices[v]) = fields
  /\ \E v \in offeredClicks :
        /\ occupantOf(tokens, vertices[v]) = currentPlayer
        /\ handleClick(fields, vertices[v]) = fields
  /\ \E v \in offeredClicks :
        /\ occupantOf(tokens, vertices[v]) = otherPlayer(currentPlayer)
        /\ handleClick(fields, vertices[v]).selectedVertex = << vertices[v] >>

\* The mill-removal phase with a token of the opponent selected
opponentTokenSelected ==
  /\ gameState = "movement" /\ millRemovalState = "removing"
  /\ gameWinner = NULL /\ selectedVertex # << >>
  /\ occupantOf(tokens, selectedVertex[1]) = otherPlayer(currentPlayer)

\* The tokens with the one on vertex from moved to vertex to
relocated(toks, from, to) ==
  [ i \in 1..Len(toks) |->
      IF toks[i].x = from.x /\ toks[i].y = from.y
      THEN [ x |-> to.x, y |-> to.y, color |-> toks[i].color ]
      ELSE toks[i] ]

\* C29: in mill removal with an opponent token selected, a click on any empty
\* vertex, adjacent to the selected vertex or not, moves exactly the selected
\* token to that vertex, decrements remainingOpponentMoves by exactly 1 and
\* clears selectedVertex; the positions and colours of all other tokens and
\* the token counts are unchanged.
C29_RelocationMovesSelectedToken ==
  opponentTokenSelected =>
     \A v \in 1..Len(vertices) :
        occupantOf(tokens, vertices[v]) = NULL =>
           \A after \in { handleClick(fields, vertices[v]) } :
              /\ after.tokens = relocated(tokens, selectedVertex[1], vertices[v])
              /\ after.tokens # tokens
              /\ after.remainingOpponentMoves = remainingOpponentMoves - 1
              /\ after.selectedVertex = << >>
              /\ after.redTokensPlaced = redTokensPlaced
              /\ after.blueTokensPlaced = blueTokensPlaced

C29_Witness ==
  /\ opponentTokenSelected
  /\ remainingOpponentMoves = 2
  /\ \E v \in offeredClicks :
        /\ occupantOf(tokens, vertices[v]) = NULL
        /\ ~ isAdjacent(selectedVertex[1], vertices[v])
        /\ handleClick(fields, vertices[v]).remainingOpponentMoves = 1
        /\ occupantOf(handleClick(fields, vertices[v]).tokens, vertices[v])
             = otherPlayer(currentPlayer)
  /\ \E v \in offeredClicks :
        /\ occupantOf(tokens, vertices[v]) = NULL
        /\ isAdjacent(selectedVertex[1], vertices[v])

\* C30: tokens stay vertex-coincident in every reachable state, resize events
\* between the clicks included: every token is within 1 pixel of a vertex of
\* the current vertex list, and a selectedVertex that is not null is a vertex
\* of that list.
C30_TokensStayOnVertices ==
  /\ \A t \in 1..Len(tokens) :
        \E i \in 1..Len(vertices) :
           /\ Abs(tokens[t].x - vertices[i].x) < 100
           /\ Abs(tokens[t].y - vertices[i].y) < 100
  /\ selectedVertex # << >> =>
        \E i \in 1..Len(vertices) : vertices[i] = selectedVertex[1]

C30_Witness ==
  /\ vertices = resizedVertices
  /\ Len(vertices) = Len(renderVertices)
  /\ gameState = "movement"
  /\ Len(tokens) = 30
  /\ selectedVertex # << >>
  /\ selectedVertex[1] = renderVertices[24]

\* Normal movement: the movement phase with no mill removal and no winner
normalMovement ==
  gameState = "movement" /\ millRemovalState # "removing" /\ gameWinner = NULL

\* C31 as stated: with no selection a click on a token of the current player
\* sets selectedVertex to its vertex and changes no other field; any other
\* click changes nothing.  With a token selected a click on another token of
\* the current player replaces the selection, and a click on a token of the
\* opponent changes nothing.
C31_SelectionChangesOnlySelectedVertex ==
  normalMovement =>
     \A s \in { fields } :
     \A v \in 1..Len(vertices) :
     \A occupant \in { occupantOf(s.tokens, vertices[v]) } :
        IF occupant = currentPlayer
        THEN handleClick(s, vertices[v]) = [s EXCEPT !.selectedVertex = << vertices[v] >>]
        ELSE (selectedVertex = << >> \/ occupant # NULL)
                => handleClick(s, vertices[v]) = s

\* C31: in normal movement a click on a token of the current player, with or
\* without a selection, sets selectedVertex to its vertex and gameMessage to
\* the selection prompt, and changes nothing else; with no selection any
\* other click changes nothing at all; with a token selected a click on a
\* token of the opponent changes nothing at all.
C31_SelectionSetsVertexAndMessage ==
  normalMovement =>
     \A s \in { fields } :
     \A v \in 1..Len(vertices) :
     \A occupant \in { occupantOf(s.tokens, vertices[v]) } :
        IF occupant = currentPlayer
        THEN handleClick(s, vertices[v]) = [s EXCEPT
                        !.selectedVertex = << vertices[v] >>,
                        !.gameMessage = Message("selected", currentPlayer, 0, 0, 0)]
        ELSE (selectedVertex = << >> \/ occupant # NULL)
                => handleClick(s, vertices[v]) = s

\* A token is selected after a click that changed the message; another token
\* of the player and a token of the opponent can be clicked
C31_Witness ==
  /\ normalMovement
  /\ selectedVertex # << >>
  /\ gameMessage = Message("selected", currentPlayer, 0, 0, 0)
  /\ lastAction.kind = "move"
  /\ \E v \in offeredClicks :
        /\ occupantOf(tokens, vertices[v]) = currentPlayer
        /\ vertices[v] # selectedVertex[1]
        /\ handleClick(fields, vertices[v]).selectedVertex = << vertices[v] >>
  /\ \E v \in offeredClicks :
        /\ occupantOf(tokens, vertices[v]) = otherPlayer(currentPlayer)
        /\ handleClick(fields, vertices[v]) = fields

\* C32: in a mill-removal phase the token a relocation moves is not one of
\* the tokens already relocated in this phase (those of
\* movedOpponentTokens): the two relocations of a phase of 2 moves move two
\* different tokens of the opponent.
C32_RelocatedTokenNotMovedAgain ==
  [][ relocationStep =>
        \A k \in 1..Len(movedOpponentTokens) :
           movedOpponentTokens[k] # movedToken ]_vars

\* After the first relocation of a phase of 2 moves, the token relocated is
\* selected again and an empty vertex can be clicked
C32_Witness ==
  /\ gameState = "movement" /\ millRemovalState = "removing"
  /\ gameWinner = NULL
  /\ remainingOpponentMoves = 1
  /\ Len(movedOpponentTokens) = 1
  /\ selectedVertex # << >>
  /\ selectedTokenIndex(fields) = movedOpponentTokens[1]
  /\ \E v \in offeredClicks : occupantOf(tokens, vertices[v]) = NULL

\* No two tokens within the tolerance of getTokenAt of each other
noSharedVertex(toks) ==
  \A i \in 1..Len(toks) : \A j \in 1..Len(toks) :
     i < j => ~ (Abs(toks[i].x - toks[j].x) < 100 /\ Abs(toks[i].y - toks[j].y) < 100)

\* C33: with the canvas size fixed no two tokens are on the same vertex in
\* any reachable state, and every token a step places or moves goes to a
\* place where getTokenAt found no token before the step.
C33_OneTokenPerVertex ==
  /\ [] noSharedVertex(tokens)
  /\ [][ \A i \in 1..Len(tokens') :
            (i > Len(tokens) \/ tokens'[i] # tokens[i])
               => getTokenAt(tokens, tokens'[i].x, tokens'[i].y) = 0 ]_vars

\* All tokens are placed, and a move and a relocation have been made
C33_Witness ==
  /\ Len(tokens) = 2 * maxTokensPerPlayer
  /\ gameState = "movement"
  /\ lastAction.kind = "relocation"
  /\ movesMade >= 2
  /\ noSharedVertex(tokens)
  /\ \A t \in 1..Len(tokens) : \E v \in 1..Len(vertices) :
        vertices[v].x = tokens[t].x /\ vertices[v].y = tokens[t].y

\* The vertices of the triangle of recapturePlan
recapturedTriangle == { 8, 9, 13 }

\* C34: the id of a mill is made of the type of the shape and the rounded
\* coordinates of its vertices, whoever holds them.  On every move, of red
\* or of blue, a completed triangle or square whose id is in previousMills
\* is not among the new mills, and a move all of whose completed shapes have
\* their ids in previousMills grants no capture and passes the turn; the ids
\* stay in previousMills until resetGame.
C34_MillIdIgnoresColour ==
  [][ /\ moveStep =>
           \A after \in { fields' } :
              /\ \A M \in completedTriangles :
                    /\ millIdOf(vertices, M, "triangle") \in after.previousMills
                    /\ millIdOf(vertices, M, "triangle") \in previousMills =>
                          \A shape \in after.millShapes :
                             pointsOf(shape.vertices) # { vertices[k] : k \in M }
              /\ \A M \in completedSquares :
                    /\ millIdOf(vertices, M, "square") \in after.previousMills
                    /\ millIdOf(vertices, M, "square") \in previousMills =>
                          \A shape \in after.millShapes :
                             pointsOf(shape.vertices) # { vertices[k] : k \in M }
              /\ ( /\ \A M \in completedTriangles :
                         millIdOf(vertices, M, "triangle") \in previousMills
                   /\ \A M \in completedSquares :
                         millIdOf(vertices, M, "square") \in previousMills ) =>
                    /\ after.millRemovalState = NULL
                    /\ after.remainingOpponentMoves = 0
                    /\ after.gameWinner = NULL =>
                          after.currentPlayer = otherPlayer(currentPlayer)
      /\ (previousMills' \subseteq previousMills /\ previousMills' # previousMills)
            => (previousMills' = {} /\ tokens' = << >>) ]_vars

\* Blue has just completed the triangle that red completed before: its id
\* was in previousMills, no capture is granted and it is red's turn
C34_Witness ==
  /\ lastAction.kind = "move" /\ lastAction.vertex = 13
  /\ lastAction.from.millRemovalState = NULL
  /\ \A v \in recapturedTriangle : occupantOf(tokens, vertices[v]) = BLUE
  /\ millIdOf(vertices, recapturedTriangle, "triangle") \in previousMills
  /\ Cardinality(previousMills) = 1
  /\ millRemovalState = NULL /\ remainingOpponentMoves = 0
  /\ gameWinner = NULL /\ currentPlayer = RED

\* The colour whose tokens can be selected: the opponent's in mill removal,
\* the current player's otherwise
selectableColour ==
  IF millRemovalState = "removing" THEN otherPlayer(currentPlayer) ELSE currentPlayer

\* selectedVertex is null, or the phase is movement and it is a vertex
\* holding a token of the colour that can be selected
selectionFitsPhase ==
  /\ gameState = "placement" => selectedVertex = << >>
  /\ (gameState = "movement" /\ selectedVertex # << >>) =>
        /\ \E v \in 1..Len(vertices) : vertices[v] = selectedVertex[1]
        /\ occupantOf(tokens, selectedVertex[1]) = selectableColour

\* C35: with the canvas size fixed, selectedVertex is null during placement;
\* in normal movement a selectedVertex that is not null is a vertex holding a
\* token of currentPlayer, in mill removal one holding a token of the
\* opponent; and selectedVertex is null in the state right after mill
\* removal is entered and in the state right after it ends.
C35_SelectionMatchesPhase ==
  /\ [] selectionFitsPhase
  /\ [][ (millRemovalState' # millRemovalState) => selectedVertex' = << >> ]_vars

\* In mill removal, after a first relocation, a token of the opponent is
\* selected
C35_Witness ==
  /\ gameState = "movement" /\ millRemovalState = "removing"
  /\ lastAction.kind = "relocation"
  /\ selectedVertex # << >>
  /\ occupantOf(tokens, selectedVertex[1]) = otherPlayer(currentPlayer)

\* C36: in every reachable state millRemovalState is null or 'removing';
\* it is 'removing' only in the movement phase; when it is null
\* remainingOpponentMoves is 0; when it is 'removing' and nobody has won
\* remainingOpponentMoves is 1 or 2.
C36_RemovalStateAndAllowance ==
  /\ millRemovalState \in { NULL, "removing" }
  /\ millRemovalState = "removing" => gameState = "movement"
  /\ millRemovalState = NULL => remainingOpponentMoves = 0
  /\ (millRemovalState = "removing" /\ gameWinner = NULL)
        => remainingOpponentMoves \in { 1, 2 }

\* Mill removal with 2 moves granted and a token of the opponent selected
C36_Witness ==
  /\ millRemovalState = "removing" /\ gameWinner = NULL
  /\ remainingOpponentMoves = 2
  /\ selectedVertex # << >>
  /\ lastAction.kind = "move"

\* C37: during placement with no winner the placements alternate, red
\* first: redTokensPlaced - blueTokensPlaced is 0 or 1 and currentPlayer is
\* red exactly when the counters are equal; each placement is of the colour
\* whose turn that makes it; and no counter ever exceeds maxTokensPerPlayer.
C37_PlacementsAlternate ==
  /\ [] /\ redTokensPlaced <= maxTokensPerPlayer
        /\ blueTokensPlaced <= maxTokensPerPlayer
  /\ [] ((gameState = "placement" /\ gameWinner = NULL) =>
            /\ redTokensPlaced - blueTokensPlaced \in { 0, 1 }
            /\ currentPlayer = RED <=> redTokensPlaced = blueTokensPlaced)
  /\ [][ placementStep =>
            /\ tokens'[Len(tokens')].color
                 = (IF redTokensPlaced = blueTokensPlaced THEN RED ELSE BLUE)
            /\ redTokensPlaced' + blueTokensPlaced'
                 = redTokensPlaced + blueTokensPlaced + 1 ]_vars

\* Red has placed its last token and blue is to place its last
C37_Witness ==
  /\ gameState = "placement" /\ gameWinner = NULL
  /\ redTokensPlaced = maxTokensPerPlayer
  /\ blueTokensPlaced = maxTokensPerPlayer - 1
  /\ currentPlayer = BLUE
  /\ tokens[Len(tokens)].color = RED

\* C38: a relocation runs no mill detection: it leaves previousMills as it
\* was, takes 1 off remainingOpponentMoves, adds no shape to millShapes and
\* opens no mill removal for the owner of the relocated token, whatever
\* triangle or square of its own colour the token completes.
C38_RelocationDetectsNoMill ==
  [][ relocationStep =>
        /\ previousMills' = previousMills
        /\ remainingOpponentMoves' = remainingOpponentMoves - 1
        /\ millShapes' \subseteq millShapes
        /\ ~ ( /\ millRemovalState' = "removing"
               /\ currentPlayer' = tokens[movedToken].color ) ]_vars

\* The token relocated last completed a triangle or a square of its own
\* colour whose id is not in previousMills; its owner is to move and no
\* mill removal is open
C38_Witness ==
  /\ lastAction.kind = "relocation"
  /\ gameWinner = NULL /\ millRemovalState = NULL
  /\ remainingOpponentMoves = 0
  /\ \E colour \in { occupantOf(tokens, vertices[lastAction.vertex]) } :
        /\ currentPlayer = colour
        /\ \/ \E M \in trianglesThrough(tokens, vertices, lastAction.vertex, colour) :
                 millIdOf(vertices, M, "triangle") \notin previousMills
           \/ \E M \in squaresThrough(tokens, vertices, lastAction.vertex, colour) :
                 millIdOf(vertices, M, "square") \notin previousMills

\* C39: in every reachable state with a winner, gameMessage is the win
\* announcement that checkForWin wrote for that winner.
C39_MessageAnnouncesWinner ==
  gameWinner # NULL =>
     /\ gameMessage.kind = "wins"
     /\ gameMessage.player = gameWinner

\* Blue has won with the 30th placement and the message is that of the start
\* of the movement phase
C39_Witness ==
  /\ gameWinner = BLUE
  /\ regionHeldBy(tokens, 3, BLUE)
  /\ redTokensPlaced = maxTokensPerPlayer /\ blueTokensPlaced = maxTokensPerPlayer
  /\ gameMessage = Message("movementStarted", RED, 0, 0, 0)

\* The colour of the token that the last move or relocation moved
lastMovedColour == occupantOf(tokens, vertices[lastAction.vertex])

\* C40: in the movement phase the turns alternate.  A normal move is made
\* with a token of currentPlayer; the first of the phase is red's; a move
\* that follows a normal move is made by the other colour, and a move that
\* follows a mill removal is made by the colour whose tokens were relocated.
\* After a move that opens no mill removal and wins nothing currentPlayer is
\* the mover's opponent; during the mill removal it is the mover, who
\* relocates tokens of the opponent, and after the relocation that ends it
\* with no win it is the mover's opponent.
C40_TurnsAlternate ==
  [][ /\ moveStep =>
           /\ tokens[movedToken].color = currentPlayer
           /\ lastAction.kind \in { "none", "reset" } => currentPlayer = RED
           /\ lastAction.kind = "move" => currentPlayer # lastMovedColour
           /\ lastAction.kind = "relocation" => currentPlayer = lastMovedColour
           /\ gameWinner' = NULL =>
                 currentPlayer' = (IF millRemovalState' = "removing"
                                   THEN currentPlayer
                                   ELSE otherPlayer(currentPlayer))
      /\ relocationStep =>
           /\ tokens[movedToken].color = otherPlayer(currentPlayer)
           /\ gameWinner' = NULL =>
                 currentPlayer' = (IF millRemovalState' = "removing"
                                   THEN currentPlayer
                                   ELSE otherPlayer(currentPlayer)) ]_vars

\* Normal moves and a mill removal have been made, five token moves or
\* more; the last was a normal move and its mover's opponent is to move
C40_Witness ==
  /\ gameState = "movement" /\ gameWinner = NULL
  /\ millRemovalState = NULL
  /\ movesMade >= 5
  /\ lastAction.kind = "move"
  /\ lastAction.from.millRemovalState = NULL
  /\ currentPlayer = otherPlayer(lastMovedColour)
  /\ previousMills # {}

====
